---- MODULE Spec2Model ----
(***************************************************************************)
(* A model of the llm-maps-integration backend: the query controller, the  *)
(* LLM service (entity extraction, JSON repair, narrative), the maps       *)
(* service and the redis cache service.                                    *)
(*                                                                         *)
(* Strings are TLA+ strings read character by character.  A JavaScript     *)
(* value is a record [t |-> tag, v |-> payload].  A call that may throw    *)
(* returns [ok |-> BOOLEAN, val |-> value].                                *)
(***************************************************************************)
EXTENDS Integers, Sequences, FiniteSets, TLC

VARIABLES
    now,        \* Date.now(): the clock reading, in ms
    store,      \* redis contents: key -> [value, expiresAt]
    req,        \* the query requests: one record per request slot
    ext,        \* entity extractor harness: the last extract() call
    maps,       \* maps service harness: the last provider call
    cacheCall   \* cache service harness: the last direct cache call

vars == <<now, store, req, ext, maps, cacheCall>>

(***************************************************************************)
(* Bounds of the model                                                     *)
(***************************************************************************)
NumReq == 2
MaxTicks == 2

(***************************************************************************)
(* JavaScript strings                                                      *)
(***************************************************************************)
\* s[i], the empty string outside the string
Ch(s, i) == IF i >= 1 /\ i <= Len(s) THEN SubSeq(s, i, i) ELSE ""

UpperChars == "ABCDEFGHIJKLMNOPQRSTUVWXYZ"
LowerChars == "abcdefghijklmnopqrstuvwxyz"
DigitChars == "0123456789"

InChars(c, chars) == \E i \in 1..Len(chars) : Ch(chars, i) = c

IsWhitespace(c) == c \in {" ", "\n", "\t"}

toLowerChar(c) ==
    IF InChars(c, UpperChars)
    THEN Ch(LowerChars, CHOOSE i \in 1..Len(UpperChars) : Ch(UpperChars, i) = c)
    ELSE c

\* the string of f(s[i]) for i in lo..hi, built by halves to keep the recursion shallow
RECURSIVE mapRange(_, _, _, _)
mapRange(s, f(_), lo, hi) ==
    IF lo > hi THEN ""
    ELSE IF lo = hi THEN f(lo)
    ELSE mapRange(s, f, lo, (lo + hi) \div 2) \o mapRange(s, f, (lo + hi) \div 2 + 1, hi)

\* String.prototype.toLowerCase
toLowerCase(s) == LET low(i) == toLowerChar(Ch(s, i)) IN mapRange(s, low, 1, Len(s))

\* String.prototype.trim
trim(s) ==
    LET keep == {i \in 1..Len(s) : ~IsWhitespace(Ch(s, i))}
    IN  IF keep = {} THEN ""
        ELSE LET lo == CHOOSE i \in keep : \A j \in keep : i <= j
                 hi == CHOOSE i \in keep : \A j \in keep : i >= j
             IN  SubSeq(s, lo, hi)

\* String.prototype.includes
includes(s, sub) ==
    \E i \in 1..(Len(s) - Len(sub) + 1) : SubSeq(s, i, i + Len(sub) - 1) = sub

startsWith(s, pre) == Len(s) >= Len(pre) /\ SubSeq(s, 1, Len(pre)) = pre
endsWith(s, suf) == Len(s) >= Len(suf) /\ SubSeq(s, Len(s) - Len(suf) + 1, Len(s)) = suf

RECURSIVE joinFrom(_, _, _)
joinFrom(strs, sep, i) ==
    IF i > Len(strs) THEN ""
    ELSE (IF i > 1 THEN sep ELSE "") \o strs[i] \o joinFrom(strs, sep, i + 1)

\* Array.prototype.join over strings
join(strs, sep) == joinFrom(strs, sep, 1)

\* Array.prototype.slice(0, n)
slice0(arr, n) == SubSeq(arr, 1, IF n < Len(arr) THEN n ELSE Len(arr))

\* [...new Set(arr)]: the first occurrence of each element, in order
uniq(arr) ==
    LET firsts == {i \in 1..Len(arr) : \A j \in 1..(i - 1) : arr[j] # arr[i]}
        nth(k) == CHOOSE i \in firsts : Cardinality({j \in firsts : j < i}) = k - 1
    IN  [k \in 1..Cardinality(firsts) |-> arr[nth(k)]]

\* Array.prototype.filter
RECURSIVE filterFrom(_, _, _)
filterFrom(arr, keep(_), i) ==
    IF i > Len(arr) THEN <<>>
    ELSE (IF keep(arr[i]) THEN <<arr[i]>> ELSE <<>>) \o filterFrom(arr, keep, i + 1)

filter(arr, keep(_)) == filterFrom(arr, keep, 1)

(***************************************************************************)
(* JavaScript values                                                       *)
(***************************************************************************)
JUndefined == [t |-> "undefined", v |-> ""]
JNull == [t |-> "null", v |-> ""]
JBool(b) == [t |-> "bool", v |-> IF b THEN "true" ELSE "false"]
JNum(n) == [t |-> "num", v |-> n]
JStr(s) == [t |-> "str", v |-> s]
JArr(elems) == [t |-> "arr", v |-> elems]
JObj(members) == [t |-> "obj", v |-> members]
\* a host object that is no JSON value (Object, Object.prototype)
JHost(name) == [t |-> "host", v |-> name]

\* ToBoolean
truthy(x) ==
    CASE x.t \in {"undefined", "null"} -> FALSE
      [] x.t = "bool" -> x.v = "true"
      [] x.t = "num" -> x.v # 0
      [] x.t = "str" -> x.v # ""
      [] OTHER -> TRUE

\* String(x)
RECURSIVE String(_)
String(x) ==
    CASE x.t = "str" -> x.v
      [] x.t = "num" -> ToString(x.v)
      [] x.t = "bool" -> x.v
      [] x.t = "null" -> "null"
      [] x.t = "undefined" -> "undefined"
      [] x.t = "arr" ->
            join([i \in 1..Len(x.v) |->
                    IF x.v[i].t \in {"null", "undefined"} THEN "" ELSE String(x.v[i])], ",")
      [] x.t = "obj" -> "[object Object]"
      [] OTHER -> "function Object() { [native code] }"

Ok(x) == [ok |-> TRUE, val |-> x]
Throw == [ok |-> FALSE, val |-> JUndefined]

(***************************************************************************)
(* JSON.parse, character by character.  A parse step returns               *)
(* [ok, val, pos]: pos is the index after the value read.                  *)
(***************************************************************************)
ParseFail == [ok |-> FALSE, val |-> JUndefined, pos |-> 0]
Parsed(x, p) == [ok |-> TRUE, val |-> x, pos |-> p]

Min(S) == CHOOSE x \in S : \A y \in S : x <= y

skipWs(s, i) ==
    LET rest == {j \in i..Len(s) : ~IsWhitespace(Ch(s, j))}
    IN  IF rest = {} THEN Len(s) + 1 ELSE Min(rest)

\* a double-quoted string starting at i; control characters are not allowed in it
parseString(s, i) ==
    LET close == {j \in (i + 1)..Len(s) : Ch(s, j) = "\""}
    IN  IF Ch(s, i) # "\"" \/ close = {} THEN ParseFail
        ELSE LET j == Min(close)
                 body == SubSeq(s, i + 1, j - 1)
             IN  IF \E k \in 1..Len(body) : Ch(body, k) \in {"\n", "\t"}
                 THEN ParseFail
                 ELSE Parsed(JStr(body), j + 1)

\* the number written by the digits s[lo..hi]
RECURSIVE digitsValue(_, _, _)
digitsValue(s, lo, hi) ==
    IF lo > hi THEN 0
    ELSE 10 * digitsValue(s, lo, hi - 1)
         + (CHOOSE k \in 1..Len(DigitChars) : Ch(DigitChars, k) = Ch(s, hi)) - 1

\* an integer: -? (0 | [1-9][0-9]*)
parseNumber(s, i) ==
    LET d0 == IF Ch(s, i) = "-" THEN i + 1 ELSE i
        stop == {j \in d0..(Len(s) + 1) : ~InChars(Ch(s, j), DigitChars) \/ j > Len(s)}
        e == Min(stop)
        abs == digitsValue(s, d0, e - 1)
    IN  IF e = d0 \/ (Ch(s, d0) = "0" /\ e > d0 + 1) THEN ParseFail
        ELSE Parsed(JNum(IF d0 > i THEN 0 - abs ELSE abs), e)

parseLiteral(s, i) ==
    CASE SubSeq(s, i, IF i + 3 <= Len(s) THEN i + 3 ELSE Len(s)) = "true" ->
            Parsed(JBool(TRUE), i + 4)
      [] SubSeq(s, i, IF i + 4 <= Len(s) THEN i + 4 ELSE Len(s)) = "false" ->
            Parsed(JBool(FALSE), i + 5)
      [] SubSeq(s, i, IF i + 3 <= Len(s) THEN i + 3 ELSE Len(s)) = "null" ->
            Parsed(JNull, i + 4)
      [] OTHER -> ParseFail

RECURSIVE parseValue(_, _)
RECURSIVE parseElems(_, _, _)
RECURSIVE parseMembers(_, _, _)

\* the elements of an array, from its first element at i
parseElems(s, i, acc) ==
    LET r == parseValue(s, i)
        k == skipWs(s, r.pos)
    IN  IF ~r.ok THEN ParseFail
        ELSE CASE Ch(s, k) = "," -> parseElems(s, skipWs(s, k + 1), Append(acc, r.val))
               [] Ch(s, k) = "]" -> Parsed(JArr(Append(acc, r.val)), k + 1)
               [] OTHER -> ParseFail

\* the members of an object, from its first key at i; a repeated key keeps the last
parseMembers(s, i, acc) ==
    LET key == parseString(s, i)
        c == skipWs(s, key.pos)
        r == parseValue(s, skipWs(s, c + 1))
        k == skipWs(s, r.pos)
        acc2 == [x \in DOMAIN acc \cup {key.val.v} |->
                    IF x = key.val.v THEN r.val ELSE acc[x]]
    IN  IF ~key.ok \/ Ch(s, c) # ":" THEN ParseFail
        ELSE IF ~r.ok THEN ParseFail
        ELSE CASE Ch(s, k) = "," -> parseMembers(s, skipWs(s, k + 1), acc2)
               [] Ch(s, k) = "}" -> Parsed(JObj(acc2), k + 1)
               [] OTHER -> ParseFail

parseValue(s, i) ==
    LET c == Ch(s, i)
    IN  CASE c = "{" ->
               IF Ch(s, skipWs(s, i + 1)) = "}"
               THEN Parsed(JObj(<<>>), skipWs(s, i + 1) + 1)
               ELSE parseMembers(s, skipWs(s, i + 1), <<>>)
          [] c = "[" ->
               IF Ch(s, skipWs(s, i + 1)) = "]"
               THEN Parsed(JArr(<<>>), skipWs(s, i + 1) + 1)
               ELSE parseElems(s, skipWs(s, i + 1), <<>>)
          [] c = "\"" -> parseString(s, i)
          [] c # "" /\ (c = "-" \/ InChars(c, DigitChars)) -> parseNumber(s, i)
          [] OTHER -> parseLiteral(s, i)

\* JSON.parse(s): throws unless s is exactly one JSON value
JSONparse(s) ==
    LET r == parseValue(s, skipWs(s, 1))
    IN  IF r.ok /\ skipWs(s, r.pos) > Len(s) THEN Ok(r.val) ELSE Throw

(***************************************************************************)
(* llmService.js                                                           *)
(***************************************************************************)
\* Characters a TLA+ string cannot hold are written as stand-ins.
Backquote == "#"
LeftCurlyQuote == "<"
RightCurlyQuote == ">"

\* config.llm.provider
llmProvider == "ollama"

\* o.k for a JSON object o, undefined for anything else
Get(o, k) == IF o.t = "obj" /\ k \in DOMAIN o.v THEN o.v[k] ELSE JUndefined

\* a || b
OrElse(a, b) == IF truthy(a) THEN a ELSE b

\* {...a, k: x}
With(a, k, x) ==
    JObj([m \in (IF a.t = "obj" THEN DOMAIN a.v ELSE {}) \cup {k} |->
            IF m = k THEN x ELSE a.v[m]])

\* What the HTTP call to the text-generation backend ends in: an error (refused,
\* timeout, HTTP status) or a response whose data is a JSON value.
LlmError == [err |-> TRUE, data |-> JUndefined]
LlmData(d) == [err |-> FALSE, data |-> d]
OllamaText(s) == LlmData(JObj([message |-> JObj([content |-> JStr(s)])]))

ollamaGenerate_noShapeCheck(reply) ==
    IF reply.err THEN Throw
    ELSE Ok(OrElse(Get(Get(reply.data, "message"), "content"), Get(reply.data, "response")))
ollamaGenerate(reply) ==
    LET rawText == OrElse(Get(Get(reply.data, "message"), "content"),
                          Get(reply.data, "response"))
    IN  IF reply.err THEN Throw
        ELSE IF ~truthy(rawText) \/ rawText.t # "str" THEN Throw
        ELSE Ok(rawText)

llamacppGenerate(reply) ==
    LET rawText == OrElse(Get(reply.data, "content"), Get(reply.data, "response"))
    IN  IF reply.err THEN Throw
        ELSE IF ~truthy(rawText) THEN Throw
        ELSE Ok(rawText)

generateResponse(reply) ==
    CASE llmProvider = "ollama" -> ollamaGenerate(reply)
      [] llmProvider = "llamacpp" -> llamacppGenerate(reply)
      [] OTHER -> Throw

\* error.message of what generateResponse throws: the provider call failed (here
\* with ECONNREFUSED), or its response had no text
generateError(reply) ==
    IF llmProvider = "ollama"
    THEN (IF reply.err THEN "Cannot connect to Ollama. Ensure 'ollama serve' is running."
          ELSE "Failed to generate LLM response from Ollama: Invalid response shape from Ollama")
    ELSE IF llmProvider = "llamacpp"
    THEN "Failed to generate LLM response from Llama.cpp: Invalid response shape from llama.cpp"
    ELSE "Unknown LLM provider: " \o llmProvider

\* s.replace(/[from]/g, to)
replaceChars(s, from, to) ==
    LET r(i) == IF Ch(s, i) \in from THEN to ELSE Ch(s, i) IN mapRange(s, r, 1, Len(s))

\* s.replace(/,\s*([}\]])/g, "$1"): a comma that only whitespace separates from a
\* closing bracket is dropped together with that whitespace
removeTrailingCommas(s) ==
    LET trailing(c) == Ch(s, c) = "," /\ Ch(s, skipWs(s, c + 1)) \in {"}", "]"}
        dropped(i) == \E c \in 1..i : trailing(c) /\ i < skipWs(s, c + 1)
        r(i) == IF dropped(i) THEN "" ELSE Ch(s, i)
    IN  mapRange(s, r, 1, Len(s))

aggressiveFix(cleanedStr) ==
    removeTrailingCommas(
        replaceChars(
            replaceChars(cleanedStr, {LeftCurlyQuote, RightCurlyQuote}, "'"),
            {"'"}, "\""))

FenceOpen == Backquote \o Backquote \o Backquote \o "json"
FenceClose == Backquote \o Backquote \o Backquote

stripFences(str) ==
    LET a == trim(str)
        b == IF startsWith(a, FenceOpen) THEN SubSeq(a, Len(FenceOpen) + 1, Len(a)) ELSE a
        c == IF endsWith(b, FenceClose) THEN SubSeq(b, 1, Len(b) - Len(FenceClose)) ELSE b
    IN  trim(c)

_attemptParseJson(str) ==
    IF ~truthy(str) \/ str.t # "str" THEN Throw
    ELSE LET cleanedStr == stripFences(str.v)
             direct == JSONparse(cleanedStr)
         IN  IF direct.ok THEN direct ELSE JSONparse(aggressiveFix(cleanedStr))

\* the synonym table of _normalizePlaceType: <<key, value>>
placeTypeMap ==
    << <<"restoran", "restaurant">>, <<"rumah makan", "restaurant">>,
       <<"warung", "restaurant">>, <<"resto", "restaurant">>, <<"cafe", "cafe">>,
       <<"kafe", "cafe">>, <<"coffee shop", "cafe">>, <<"kedai", "cafe">>,
       <<"hotel", "hotel">>, <<"mall", "mall">>, <<"taman", "park">>,
       <<"tempat wisata", "point_of_interest">>, <<"co_working", "coworking_space">> >>

\* map[t]: an own key, a property inherited from Object.prototype, or undefined
mapLookup(t) ==
    LET own == {i \in 1..Len(placeTypeMap) : placeTypeMap[i][1] = t}
    IN  CASE own # {} -> JStr(placeTypeMap[CHOOSE i \in own : TRUE][2])
          [] t = "constructor" -> JHost("Object")
          [] t = "__proto__" -> JHost("Object.prototype")
          [] OTHER -> JUndefined

_normalizePlaceType(type) ==
    IF ~truthy(type) THEN Ok(JNull)
    ELSE IF type.t # "str" THEN Throw
    ELSE LET t == trim(toLowerCase(type.v))
         IN  Ok(OrElse(mapLookup(t), JStr(t)))

IsArray(x) == x.t = "arr"

emptyEntities == [place_names |-> JArr(<<>>), place_types |-> JArr(<<>>), locations |-> JArr(<<>>)]

_normalizeEntities_dedupFirst(raw) ==
    LET names == Get(raw, "place_names")
        types == Get(raw, "place_types")
        locs == Get(raw, "locations")
        uniqTypes == uniq(types.v)
        uniqNames == uniq(names.v)
        uniqLocs == uniq(locs.v)
        typed == [i \in 1..Len(uniqTypes) |-> _normalizePlaceType(uniqTypes[i])]
    IN  IF ~truthy(raw) \/ raw.t \notin {"obj", "arr"} THEN Ok(emptyEntities)
        ELSE IF IsArray(types) /\ \E i \in 1..Len(uniqTypes) : ~typed[i].ok THEN Throw
        ELSE Ok([place_names |->
                    IF IsArray(names)
                    THEN JArr(filter([i \in 1..Len(uniqNames) |->
                                         JStr(trim(String(uniqNames[i])))], truthy))
                    ELSE JArr(<<>>),
                 place_types |->
                    IF IsArray(types)
                    THEN JArr(filter([i \in 1..Len(uniqTypes) |-> typed[i].val], truthy))
                    ELSE JArr(<<>>),
                 locations |->
                    IF IsArray(locs)
                    THEN JArr(filter([i \in 1..Len(uniqLocs) |->
                                         JStr(trim(toLowerCase(String(uniqLocs[i]))))], truthy))
                    ELSE JArr(<<>>)])

_normalizeEntities(raw) ==
    LET names == Get(raw, "place_names")
        types == Get(raw, "place_types")
        locs == Get(raw, "locations")
        typed == [i \in 1..Len(types.v) |-> _normalizePlaceType(types.v[i])]
    IN  IF ~truthy(raw) \/ raw.t \notin {"obj", "arr"} THEN Ok(emptyEntities)
        ELSE IF IsArray(types) /\ \E i \in 1..Len(types.v) : ~typed[i].ok THEN Throw
        ELSE Ok([place_names |->
                    IF IsArray(names)
                    THEN JArr(uniq(filter([i \in 1..Len(names.v) |->
                                              JStr(trim(String(names.v[i])))], truthy)))
                    ELSE JArr(<<>>),
                 place_types |->
                    IF IsArray(types)
                    THEN JArr(uniq(filter([i \in 1..Len(types.v) |-> typed[i].val], truthy)))
                    ELSE JArr(<<>>),
                 locations |->
                    IF IsArray(locs)
                    THEN JArr(uniq(filter([i \in 1..Len(locs.v) |->
                                              JStr(trim(toLowerCase(String(locs.v[i]))))], truthy)))
                    ELSE JArr(<<>>)])

\* the keyword table of extractPlaceTypes: <<type, keywords>>
placeTypes ==
    << <<"restaurant", <<"restaurant", "restoran", "rumah makan", "warung", "resto">> >>,
       <<"cafe", <<"cafe", "kafe", "coffee shop", "kedai", "kedai kopi">> >>,
       <<"hotel", <<"hotel">> >>,
       <<"mall", <<"mall">> >>,
       <<"park", <<"park", "taman">> >>,
       <<"point_of_interest", <<"tempat wisata">> >> >>

extractPlaceTypes(text) ==
    LET textLower == toLowerCase(text)
        hit(e) == \E k \in 1..Len(e[2]) : includes(textLower, e[2][k])
        types == [i \in 1..Len(placeTypes) |-> placeTypes[i]]
    IN  [i \in 1..Len(filter(types, hit)) |-> filter(types, hit)[i][1]]

knownLocations ==
    <<"bandung", "jakarta", "surabaya", "yogyakarta", "jogja", "bali", "medan",
      "semarang", "makassar", "palembang", "tangerang", "depok", "bekasi", "bogor",
      "denpasar", "malang">>

\* the alternatives of cityRegex, in the order the regex tries them
cityKeywords == <<"kota", "kabupaten", "di", "di kota">>
CaptureMin == 3
CaptureMax == 40

IsWordChar(c) ==
    c # "" /\ (InChars(c, UpperChars) \/ InChars(c, LowerChars) \/ InChars(c, DigitChars) \/ c = "_")

\* [A-Za-zÀ-ſ' -]
IsCityChar(c) ==
    c # "" /\ (InChars(c, UpperChars) \/ InChars(c, LowerChars) \/ c \in {"'", " ", "-"})

\* the number of consecutive characters from i on that satisfy p
runLength(s, i, p(_)) ==
    Min({j \in i..(Len(s) + 1) : j > Len(s) \/ ~p(Ch(s, j))}) - i

\* cityRegex anchored at i with alternative kw: \b kw \s+ ([class]{3,40}), the
\* quantifiers greedy, \s+ giving back whitespace until the capture fits
cityMatchWith(s, i, kw) ==
    LET j == i + Len(kw)
        n == runLength(s, j, IsWhitespace)
        cap(w) == LET m == runLength(s, j + w, IsCityChar)
                  IN  IF m > CaptureMax THEN CaptureMax ELSE m
        fits == {w \in 1..n : cap(w) >= CaptureMin}
        w == CHOOSE x \in fits : \A y \in fits : x >= y
    IN  IF /\ IsWordChar(Ch(s, i - 1)) # IsWordChar(Ch(s, i))
           /\ SubSeq(s, i, IF j - 1 <= Len(s) THEN j - 1 ELSE Len(s)) = kw
           /\ fits # {}
        THEN [found |-> TRUE, cap |-> SubSeq(s, j + w, j + w + cap(w) - 1), end |-> j + w + cap(w)]
        ELSE [found |-> FALSE, cap |-> "", end |-> i]

cityMatchAt(s, i) ==
    LET alts == {k \in 1..Len(cityKeywords) : cityMatchWith(s, i, cityKeywords[k]).found}
    IN  IF alts = {} THEN [found |-> FALSE, cap |-> "", end |-> i]
        ELSE cityMatchWith(s, i, cityKeywords[Min(alts)])

\* while ((match = cityRegex.exec(textLower)) !== null) found.add(match[1].trim())
RECURSIVE cityRegexExec(_, _, _)
cityRegexExec(s, lastIndex, acc) ==
    LET starts == {i \in lastIndex..Len(s) : cityMatchAt(s, i).found}
        m == cityMatchAt(s, Min(starts))
    IN  IF starts = {} THEN acc
        ELSE cityRegexExec(s, m.end, Append(acc, trim(m.cap)))

extractLocations(text) ==
    LET textLower == toLowerCase(text)
        hit(l) == includes(textLower, l)
    IN  uniq(filter(knownLocations, hit) \o cityRegexExec(textLower, 1, <<>>))

strArray(strs) == JArr([i \in 1..Len(strs) |-> JStr(strs[i])])

\* the catch branch of extractLocationEntities
fallbackEntities(text) ==
    _normalizeEntities(JObj([place_names |-> JArr(<<>>),
                             place_types |-> strArray(extractPlaceTypes(text)),
                             locations |-> strArray(extractLocations(text))]))

extractLocationEntities_catchCallOnly(text, reply) ==
    LET llmRaw == generateResponse(reply)
        parsed == _attemptParseJson(llmRaw.val)
        normal == _normalizeEntities(parsed.val)
    IN  IF ~llmRaw.ok THEN fallbackEntities(text)
        ELSE IF parsed.ok /\ normal.ok THEN normal
        ELSE Throw

extractLocationEntities(text, reply) ==
    LET llmRaw == generateResponse(reply)
        parsed == _attemptParseJson(llmRaw.val)
        normal == _normalizeEntities(parsed.val)
    IN  IF llmRaw.ok /\ parsed.ok /\ normal.ok THEN normal
        ELSE fallbackEntities(text)

(***************************************************************************)
(* JSON.stringify followed by JSON.parse: what a value is once it has been *)
(* written to redis or sent with res.json.  A member that is undefined or  *)
(* a function is dropped; such an array element becomes null.              *)
(***************************************************************************)
RECURSIVE jsonRoundTrip(_)
jsonRoundTrip(x) ==
    CASE x.t = "arr" ->
            JArr([i \in 1..Len(x.v) |->
                    IF x.v[i].t \in {"undefined", "host"} THEN JNull ELSE jsonRoundTrip(x.v[i])])
      [] x.t = "obj" ->
            JObj([k \in {m \in DOMAIN x.v : x.v[m].t \notin {"undefined", "host"}} |->
                    jsonRoundTrip(x.v[k])])
      [] OTHER -> x

(***************************************************************************)
(* mapsService.js                                                          *)
(***************************************************************************)
\* config.googleMaps.apiKey
apiKey == "AIzaSyKEY"
\* .slice(0, 5) of searchPlaces and nearbySearch
MaxProviderResults == 5

\* encodeURIComponent over letters, digits and spaces
encodeURIComponent(s) == replaceChars(s, {" "}, "%20")

generateMapsUrl(lat, lng, name) ==
    "https://www.google.com/maps/search/?api=1&query=" \o String(lat) \o "," \o String(lng)
        \o "&query_place_name=" \o encodeURIComponent(String(name))

generateDirectionsUrl(lat, lng) ==
    "https://www.google.com/maps/dir/?api=1&destination=" \o String(lat) \o "," \o String(lng)

generateEmbedUrl(placeId) ==
    "https://www.google.com/maps/embed/v1/place?key=" \o apiKey \o "&q=place_id:" \o String(placeId)

\* place.opening_hours?.open_now || null
formatOpenNow(place) == OrElse(Get(Get(place, "opening_hours"), "open_now"), JNull)

\* throws when place is null or undefined (place.geometry of no object)
formatPlace(place) ==
    LET location == OrElse(Get(Get(place, "geometry"), "location"), JObj(<<>>))
    IN  IF place.t \in {"null", "undefined"} THEN Throw
        ELSE Ok(JObj([
            place_id |-> Get(place, "place_id"),
            name |-> Get(place, "name"),
            address |-> OrElse(Get(place, "formatted_address"), Get(place, "vicinity")),
            lat |-> Get(location, "lat"),
            lng |-> Get(location, "lng"),
            rating |-> Get(place, "rating"),
            user_ratings_total |-> Get(place, "user_ratings_total"),
            types |-> OrElse(Get(place, "types"), JArr(<<>>)),
            open_now |-> formatOpenNow(place),
            price_level |-> Get(place, "price_level"),
            maps_url |-> JStr(generateMapsUrl(Get(location, "lat"), Get(location, "lng"),
                                              Get(place, "name"))),
            directions_url |-> JStr(generateDirectionsUrl(Get(location, "lat"),
                                                          Get(location, "lng"))),
            embed_url |-> JStr(generateEmbedUrl(Get(place, "place_id")))]))

\* What a provider call ends in: an error, or a response with its data.
ProviderError == [err |-> TRUE, data |-> JUndefined]
ProviderData(d) == [err |-> FALSE, data |-> d]

formatResults_noSlice(outcome) ==
    LET results == Get(outcome.data, "results")
        formatted == [i \in 1..Len(results.v) |-> formatPlace(results.v[i])]
    IN  IF outcome.err \/ ~IsArray(results) THEN Throw
        ELSE IF \E i \in 1..Len(results.v) : ~formatted[i].ok THEN Throw
        ELSE Ok(JArr([i \in 1..Len(results.v) |-> formatted[i].val]))
\* response.data.results.slice(0, 5).map(formatPlace), inside try/catch
formatResults(outcome) ==
    LET results == Get(outcome.data, "results")
        first == slice0(results.v, MaxProviderResults)
        formatted == [i \in 1..Len(first) |-> formatPlace(first[i])]
    IN  IF outcome.err \/ ~IsArray(results) THEN Throw
        ELSE IF \E i \in 1..Len(first) : ~formatted[i].ok THEN Throw
        ELSE Ok(JArr([i \in 1..Len(first) |-> formatted[i].val]))

searchPlaces_catchCallOnly(outcome) ==
    IF outcome.err THEN Ok(JArr(<<>>)) ELSE formatResults(outcome)
\* searchPlaces(query, location, radius, placeType), client.textSearch ending in
\* outcome: the catch turns every throw into []
searchPlaces(outcome) ==
    IF formatResults(outcome).ok THEN formatResults(outcome) ELSE Ok(JArr(<<>>))

\* nearbySearch(location, placeType, radius, keyword), client.placesNearby ending in
\* outcome
nearbySearch(outcome) ==
    IF formatResults(outcome).ok THEN formatResults(outcome) ELSE Ok(JArr(<<>>))

\* maxReviews = 3, maxPhotos = 3
MaxReviews == 3
MaxPhotos == 3

\* reviews.slice(0, maxReviews).map(...): throws for what is no array and for an
\* element that is null or undefined
formatReviews(reviews) ==
    LET first == slice0(reviews.v, MaxReviews)
    IN  IF ~IsArray(reviews) THEN Throw
        ELSE IF \E i \in 1..Len(first) : first[i].t \in {"null", "undefined"} THEN Throw
        ELSE Ok(JArr([i \in 1..Len(first) |->
                        JObj([author |-> Get(first[i], "author_name"),
                              rating |-> Get(first[i], "rating"),
                              text |-> Get(first[i], "text"),
                              time |-> Get(first[i], "relative_time_description")])]))

photoUrl(photo) ==
    IF truthy(Get(photo, "photo_reference"))
    THEN JStr("https://maps.googleapis.com/maps/api/place/photo?maxwidth=400&photoreference="
              \o String(Get(photo, "photo_reference")) \o "&key=" \o apiKey)
    ELSE JNull

formatPhotos(photos) ==
    LET first == slice0(photos.v, MaxPhotos)
        notNull(url) == url.t # "null"
    IN  IF ~IsArray(photos) THEN Throw
        ELSE IF \E i \in 1..Len(first) : first[i].t \in {"null", "undefined"} THEN Throw
        ELSE Ok(JArr(filter([i \in 1..Len(first) |-> photoUrl(first[i])], notNull)))

formatPlaceDetails(place) ==
    LET formatted == formatPlace(place)
        reviews == formatReviews(OrElse(Get(place, "reviews"), JArr(<<>>)))
        photos == formatPhotos(OrElse(Get(place, "photos"), JArr(<<>>)))
    IN  IF ~formatted.ok \/ ~reviews.ok \/ ~photos.ok THEN Throw
        ELSE Ok(With(With(With(With(With(formatted.val,
                "phone", Get(place, "formatted_phone_number")),
                "website", Get(place, "website")),
                "opening_hours", OrElse(Get(Get(place, "opening_hours"), "weekday_text"),
                                        JArr(<<>>))),
                "reviews", reviews.val),
                "photos", photos.val))

\* the try block of getPlaceDetails
detailsResult(outcome) ==
    IF outcome.err \/ outcome.data.t \in {"null", "undefined"} THEN Throw
    ELSE IF truthy(Get(outcome.data, "result"))
    THEN formatPlaceDetails(Get(outcome.data, "result"))
    ELSE Ok(JNull)

\* getPlaceDetails(placeId), client.placeDetails ending in outcome: the catch turns
\* every throw into null
getPlaceDetails(outcome) ==
    IF detailsResult(outcome).ok THEN detailsResult(outcome) ELSE Ok(JNull)

(***************************************************************************)
(* cacheService.js                                                         *)
(***************************************************************************)
\* config.redis.ttl || 3600, with config.redis.ttl = parseInt(CACHE_TTL) || 1800
defaultTTL == 1800

\* md5 as an injective function of the key string
md5(keyString) == "md5(" \o keyString \o ")"

generateKey_noSeparator(args) ==
    "llm_maps:" \o md5(join([i \in 1..Len(args) |->
                                IF args[i].t \in {"null", "undefined"} THEN ""
                                ELSE String(args[i])], ""))
\* args.join(":"): null and undefined join as the empty string
generateKey(args) ==
    "llm_maps:" \o md5(join([i \in 1..Len(args) |->
                                IF args[i].t \in {"null", "undefined"} THEN ""
                                ELSE String(args[i])], ":"))

\* What redis holds under a key is JSON text; an entry of the model keeps the value
\* JSON.parse gives back for it, the time it expires, and (for the record) the
\* request slot that wrote it.
\* redis answers TTL with -1 for a key that has no expiry
NoExpiry == -1
Live(st, key, t) ==
    key \in DOMAIN st /\ (st[key].expiresAt = NoExpiry \/ t < st[key].expiresAt)

\* redis dropping the entries whose TTL has run out by time t
expire(st, t) == [k \in {x \in DOMAIN st : Live(st, x, t)} |-> st[k]]

\* JSON.stringify(value) is a string
serializable(value) == value.t \notin {"undefined", "host"}

cacheGet_ignoreFailure(st, up, t, args) ==
    IF Live(st, generateKey(args), t) THEN st[generateKey(args)].value ELSE JNull
\* get(...args): the parsed value; null on a miss or when the command fails
cacheGet(st, up, t, args) ==
    IF up /\ Live(st, generateKey(args), t) THEN st[generateKey(args)].value ELSE JNull

\* set(value, ttl, ...args): true once setEx succeeded, false when it failed
cacheSetResult(up, value) == up /\ serializable(value)

cacheSetStore_ttlMillis(st, up, t, value, ttl, args, writer) ==
    IF cacheSetResult(up, value)
    THEN [k \in DOMAIN st \cup {generateKey(args)} |->
            IF k = generateKey(args)
            THEN [value |-> jsonRoundTrip(value),
                  expiresAt |-> t + (IF ttl # 0 THEN ttl ELSE defaultTTL),
                  writer |-> writer]
            ELSE st[k]]
    ELSE st
cacheSetStore(st, up, t, value, ttl, args, writer) ==
    IF cacheSetResult(up, value)
    THEN [k \in DOMAIN st \cup {generateKey(args)} |->
            IF k = generateKey(args)
            THEN [value |-> jsonRoundTrip(value),
                  expiresAt |-> t + (IF ttl # 0 THEN ttl ELSE defaultTTL) * 1000,
                  writer |-> writer]
            ELSE st[k]]
    ELSE st

\* delete(...args): Boolean(del(key)); false when the command fails
cacheDeleteResult(st, up, t, args) == up /\ Live(st, generateKey(args), t)

cacheDeleteStore_keepEntry(st, up, args) == st
cacheDeleteStore(st, up, args) ==
    IF up THEN [k \in DOMAIN st \ {generateKey(args)} |-> st[k]] ELSE st

\* expire(key, 60) of increment
CounterTTL == 60

\* incr(key): only a key holding an integer, or no key, can be incremented
incrOk(st, up, t, args) ==
    up /\ (Live(st, generateKey(args), t) => st[generateKey(args)].value.t = "num")

\* the value incr(key) leaves under the key
incremented(st, t, args) ==
    IF Live(st, generateKey(args), t) THEN st[generateKey(args)].value.v + 1 ELSE 1

\* increment(...args): the new count; 0 when incr or expire fails.  incrUp, expireUp:
\* redis is reachable and the command succeeds
cacheIncrementResult(st, incrUp, expireUp, t, args) ==
    IF incrOk(st, incrUp, t, args) /\ expireUp THEN incremented(st, t, args) ELSE 0

\* incr keeps the expiry the key has, a new key has none; expire sets it
cacheIncrementStore(st, incrUp, expireUp, t, args) ==
    IF incrOk(st, incrUp, t, args)
    THEN [k \in DOMAIN st \cup {generateKey(args)} |->
            IF k = generateKey(args)
            THEN [value |-> JNum(incremented(st, t, args)),
                  expiresAt |-> IF expireUp THEN t + CounterTTL * 1000
                                ELSE IF Live(st, k, t) THEN st[k].expiresAt
                                ELSE NoExpiry,
                  writer |-> 0]
            ELSE st[k]]
    ELSE st

(***************************************************************************)
(* queryController.js: processQuery.  A request runs from one await to the *)
(* next in each step; the steps of different requests interleave.          *)
(***************************************************************************)
\* the TTL of cacheService.set(responseData, 1800, ...cacheKey)
QueryTTL == 1800
\* max_results = 5 of the destructuring of req.body
DefaultMaxResults == 5

Req == 1..NumReq

\* the clock advances by half the query TTL
TickMs == (QueryTTL * 1000) \div 2
MaxNow == MaxTicks * TickMs

\* the body of a POST /api/query, as the JSON parser of the server delivers it
queryBody(prompt, user_location, max_results, use_cache) ==
    jsonRoundTrip(JObj([prompt |-> JStr(prompt), user_location |-> user_location,
                        max_results |-> max_results, use_cache |-> use_cache]))

Jakarta == JObj([lat |-> JNum(-6), lng |-> JNum(106)])

QueryBodies ==
    { queryBody("kafe di bandung", JUndefined, JUndefined, JUndefined),
      queryBody("kafe di bandung", JUndefined, JNum(1), JUndefined),
      queryBody("kafe di bandung", JUndefined, JNum(1), JBool(FALSE)),
      queryBody("kafe di bandung", Jakarta, JUndefined, JBool(TRUE)) }

\* the replies of the text-generation backend to the extraction call
ExtractReplies ==
    { LlmError,
      OllamaText("Sure! Here are the entities you asked for."),
      OllamaText("{\"place_names\":[],\"place_types\":[\"Kafe\"],\"locations\":[\"Bandung\"]}") }

\* the replies of the text-generation backend to the narrative call
NarrativeReplies ==
    { LlmError,
      LlmData(JObj([done |-> JBool(TRUE)])),
      OllamaText("Ada beberapa kafe yang nyaman di sekitar sini.") }

rawPlace(id, name, lat, lng, rating, opening_hours) ==
    jsonRoundTrip(JObj([place_id |-> JStr(id), name |-> JStr(name),
                        formatted_address |-> JStr("Jl. " \o name),
                        geometry |-> JObj([location |-> JObj([lat |-> JNum(lat), lng |-> JNum(lng)])]),
                        rating |-> rating, opening_hours |-> opening_hours,
                        types |-> JArr(<<JStr("cafe")>>)]))

PlaceA == rawPlace("ChIJa", "Kopi Satu", -6, 107, JNum(4), JObj([open_now |-> JBool(TRUE)]))
PlaceB == rawPlace("ChIJb", "Kedai Dua", -7, 107, JUndefined, JObj([open_now |-> JBool(FALSE)]))
PlaceC == rawPlace("ChIJc", "Warung Tiga", -6, 106, JNum(5), JUndefined)

textSearchResults(places) == ProviderData(JObj([status |-> JStr("OK"), results |-> JArr(places)]))

\* what client.textSearch ends in, for a query request
SearchOutcomes ==
    { ProviderError,
      textSearchResults(<<>>),
      textSearchResults(<<PlaceA, PlaceB>>),
      textSearchResults(<<PlaceC>>) }

\* A request holds the variables of processQuery that are live across an await:
\* mapsQuery while the search is awaited, limitedPlaces while the narrative is
\* awaited, responseData while the cache write is awaited.
idleRequest ==
    [pc |-> "idle", body |-> JUndefined, startTime |-> 0, requestId |-> "",
     mapsQuery |-> "", limitedPlaces |-> JArr(<<>>), responseData |-> JUndefined,
     status |-> 0, sent |-> JUndefined,
     \* for the record: the calls issued, in order; what the provider call of the
     \* search ended in and what generateResponse gave for the narrative (<<>> before
     \* that); the writer of the cache entry read (0 for none); whether the redis
     \* commands of the cache calls succeeded
     calls |-> <<>>, searched |-> <<>>, narrated |-> <<>>,
     entryOf |-> 0, getOk |-> FALSE, setOk |-> FALSE,
     \* when the response was sent, and the message of the error that the catch of
     \* the handler logged ("" for none)
     respondedAt |-> 0, caughtError |-> ""]

\* no call of the extractor, or of the maps service, is under way
noExtract == [pc |-> "none"]
noMapsCall == [pc |-> "none"]
noCacheCall == [pc |-> "none"]

\* const { prompt, user_location, max_results = 5, use_cache = true } = req.body
prompt(body) == Get(body, "prompt").v
user_location(body) == Get(body, "user_location")
max_results(body) ==
    IF Get(body, "max_results").t = "undefined" THEN DefaultMaxResults
    ELSE Get(body, "max_results").v
use_cache(body) ==
    IF Get(body, "use_cache").t = "undefined" THEN TRUE
    ELSE truthy(Get(body, "use_cache"))

\* JSON.stringify(user_location) for {lat, lng}; undefined stays undefined
stringifyLocation(loc) ==
    IF loc.t # "obj" THEN JUndefined
    ELSE JStr("{\"lat\":" \o String(Get(loc, "lat")) \o ",\"lng\":" \o String(Get(loc, "lng")) \o "}")

\* const cacheKey = [prompt, JSON.stringify(user_location)]
cacheKey(body) == <<JStr(prompt(body)), stringifyLocation(user_location(body))>>

\* res.status(code).json(body): the request is over
respond(rec, code, body) ==
    [rec EXCEPT !.pc = "done", !.status = code, !.sent = jsonRoundTrip(body),
                !.respondedAt = now]

notFound_withPlaces(requestId) ==
    JObj([error |-> JStr("No places found"), request_id |-> JStr(requestId),
          places |-> JArr(<<>>)])
notFound(requestId) == JObj([error |-> JStr("No places found"), request_id |-> JStr(requestId)])
failed(requestId) == JObj([error |-> JStr("Failed to process query"), request_id |-> JStr(requestId)])

caught_withMessage(rec, error) ==
    [respond(rec, 500, With(failed(rec.requestId), "message", JStr(error)))
        EXCEPT !.caughtError = error]
\* catch (error) of processQuery: the error is logged, the response is the generic one
caught(rec, error) == [respond(rec, 500, failed(rec.requestId)) EXCEPT !.caughtError = error]

\* const mapsQuery = `${searchKeywords} ${searchLocation}`.trim()
mapsQuery(text, entities) ==
    LET types == entities.place_types.v
        locs == entities.locations.v
        searchKeywords == IF Len(types) > 0
                          THEN join([i \in 1..Len(types) |-> String(types[i])], " ")
                          ELSE text
        searchLocation == join([i \in 1..Len(locs) |-> String(locs[i])], " ")
    IN  trim(searchKeywords \o " " \o searchLocation)

\* the results of the pure functions over the inputs of the model, computed once
\* the limits of validateQuery (queryValidation.js)
PromptMinLength == 3
PromptMaxLength == 500
MinLat == -90
MaxLat == 90
MinLng == -180
MaxLng == 180
MinResults == 1
MaxResults == 10

\* s repeated n times, built by halves
RECURSIVE repeat(_, _)
repeat(s, n) ==
    IF n = 0 THEN ""
    ELSE IF n = 1 THEN s
    ELSE repeat(s, n \div 2) \o repeat(s, n - n \div 2)

latLng(lat, lng) == JObj([lat |-> JNum(lat), lng |-> JNum(lng)])

\* the bodies POST /query is given behind its validation: a request body with what
\* it is: "valid", or "malformed" in the field named
RouteInput(kind, field, body) == [kind |-> kind, field |-> field, body |-> body]
RouteInputs ==
    { RouteInput("valid", "", queryBody("kafe di bandung", JUndefined, JUndefined, JUndefined)),
      RouteInput("valid", "", queryBody("kafe di bandung", JUndefined, JNum(1), JBool(FALSE))),
      RouteInput("valid", "", queryBody("kfe", latLng(MaxLat, MinLng), JNum(MaxResults), JUndefined)),
      RouteInput("valid", "", queryBody("kfe", latLng(MinLat, MaxLng), JNum(MinResults), JBool(FALSE))),
      RouteInput("malformed", "prompt",
                 jsonRoundTrip(JObj([max_results |-> JNum(5)]))),
      RouteInput("malformed", "prompt",
                 jsonRoundTrip(JObj([prompt |-> JNum(12345)]))),
      RouteInput("malformed", "prompt", queryBody("", JUndefined, JNum(5), JUndefined)),
      RouteInput("malformed", "prompt", queryBody("ka", JUndefined, JUndefined, JUndefined)),
      RouteInput("malformed", "prompt",
                 queryBody(repeat("k", PromptMaxLength + 1), JUndefined, JUndefined, JUndefined)),
      RouteInput("malformed", "max_results",
                 queryBody("kafe di bandung", JUndefined, JNum(MinResults - 1), JUndefined)),
      RouteInput("malformed", "max_results",
                 queryBody("kafe di bandung", JUndefined, JNum(MaxResults + 1), JBool(FALSE))),
      RouteInput("malformed", "user_location.lat",
                 queryBody("kafe di bandung", latLng(MaxLat + 1, 106), JUndefined, JUndefined)),
      RouteInput("malformed", "user_location.lat",
                 queryBody("kafe di bandung", latLng(MinLat - 1, 106), JUndefined, JUndefined)),
      RouteInput("malformed", "user_location.lng",
                 queryBody("kafe di bandung", latLng(-6, MaxLng + 1), JUndefined, JUndefined)),
      RouteInput("malformed", "user_location.lng",
                 queryBody("kafe di bandung", latLng(-6, MinLng - 1), JUndefined, JBool(FALSE))) }

\* query bodies and place ids for the handlers of /query and /place/:placeId running
\* against the same cache
SharedBodies ==
    { queryBody("kafe di bandung", JUndefined, JUndefined, JUndefined),
      queryBody("place", Jakarta, JUndefined, JUndefined) }
SharedIds == {"ChIJa", "{\"lat\":-6,\"lng\":106}"}

ValidBodies ==
    QueryBodies \cup {input.body : input \in {x \in RouteInputs : x.kind = "valid"}}
                \cup SharedBodies

Prompts == {prompt(b) : b \in ValidBodies}
extractMemo == [p \in Prompts, reply \in ExtractReplies |-> extractLocationEntities(p, reply)]
searchMemo == [o \in SearchOutcomes |-> searchPlaces(o)]
keyMemo == [b \in ValidBodies |-> generateKey(cacheKey(b))]

noPlaces_nullOnly(places) == ~truthy(places)
\* !places || places.length === 0
noPlaces(places) == ~truthy(places) \/ Len(places.v) = 0

\* places.slice(0, max_results)
limitPlaces(places, n) == JArr(slice0(places.v, n))

hitResponse_spreadLast(cachedResult, requestId, elapsed) ==
    LET fresh == JObj([cached |-> JBool(TRUE), request_id |-> JStr(requestId),
                       processing_time |-> JNum(elapsed)])
    IN  JObj([m \in DOMAIN fresh.v \cup DOMAIN cachedResult.v |->
                IF m \in DOMAIN cachedResult.v THEN cachedResult.v[m] ELSE fresh.v[m]])
\* the response to a cache hit
hitResponse(cachedResult, requestId, elapsed) ==
    With(With(With(cachedResult, "cached", JBool(TRUE)),
              "request_id", JStr(requestId)),
         "processing_time", JNum(elapsed))

buildResponseData(llmNarrative, limitedPlaces, requestId, elapsed) ==
    JObj([llm_text |-> llmNarrative, places |-> limitedPlaces,
          request_id |-> JStr(requestId), cached |-> JBool(FALSE),
          processing_time |-> JNum(elapsed)])

received_alwaysLookup(body) ==
    [idleRequest EXCEPT
        !.pc = "cacheGet",
        !.body = body,
        !.startTime = now,
        !.requestId = "req_" \o ToString(now),
        !.calls = <<"cache.get">>]
\* processQuery from its start to its first await
received(body) ==
    [idleRequest EXCEPT
        !.pc = IF use_cache(body) THEN "cacheGet" ELSE "extract",
        !.body = body,
        !.startTime = now,
        !.requestId = "req_" \o ToString(now),
        !.calls = IF use_cache(body) THEN <<"cache.get">> ELSE <<"llm.extract">>]

\* processQuery from the return of extractLocationEntities to the next await
afterExtract(me, entities) ==
    IF entities.ok
    THEN [me EXCEPT !.pc = "search",
                    !.mapsQuery = mapsQuery(prompt(me.body), entities.val),
                    !.calls = Append(@, "maps.textSearch")]
    ELSE caught(me, "Cannot read properties of undefined (reading 'place_types')")

afterSearch_retryEmpty(me, places, outcome) ==
    IF places.ok /\ noPlaces(places.val)
    THEN [me EXCEPT !.calls = Append(@, "maps.textSearch")]
    ELSE [me EXCEPT !.pc = "narrate", !.searched = <<outcome>>,
                    !.limitedPlaces = limitPlaces(places.val, max_results(me.body)),
                    !.calls = Append(@, "llm.summary")]
\* processQuery from the return of searchPlaces to the next await
afterSearch(me, places, outcome) ==
    LET returned == [me EXCEPT !.mapsQuery = "", !.searched = <<outcome>>]
    IN  IF ~places.ok THEN caught(returned, "Cannot read properties of undefined (reading 'length')")
        ELSE IF noPlaces(places.val)
        THEN respond(returned, 404, notFound(me.requestId))
        ELSE [returned EXCEPT
                !.pc = "narrate",
                !.limitedPlaces = limitPlaces(places.val, max_results(me.body)),
                !.calls = Append(@, "llm.summary")]

(***************************************************************************)
(* queryValidation.js: validateQuery and handleValidationErrors, the       *)
(* middlewares of POST /query in front of processQuery.  The validators    *)
(* are those of express-validator: a standard validator is applied to the  *)
(* string of the value; the numbers of the model are integers, so strings  *)
(* with a fraction or an exponent are not among the values.                *)
(***************************************************************************)
\* the string a standard validator is given: '' for null and undefined
validatorString(x) == IF x.t \in {"null", "undefined"} THEN "" ELSE String(x)

\* [-+]? digits
isNumericString(s) ==
    LET d0 == IF Ch(s, 1) \in {"-", "+"} THEN 2 ELSE 1
    IN  d0 <= Len(s) /\ \A i \in d0..Len(s) : InChars(Ch(s, i), DigitChars)
numericValue(s) ==
    LET d0 == IF Ch(s, 1) \in {"-", "+"} THEN 2 ELSE 1
    IN  IF Ch(s, 1) = "-" THEN 0 - digitsValue(s, d0, Len(s)) ELSE digitsValue(s, d0, Len(s))

\* isString()
isString(x) == x.t = "str"
\* isLength({ min, max })
isLength(x, min, max) == Len(validatorString(x)) >= min /\ Len(validatorString(x)) <= max
\* isObject()
isObject(x) == x.t = "obj"
\* isFloat({ min, max })
isFloat(x, min, max) ==
    /\ isNumericString(validatorString(x))
    /\ numericValue(validatorString(x)) >= min
    /\ numericValue(validatorString(x)) <= max
\* isInt({ min, max }): no leading zeros
isInt(x, min, max) ==
    LET s == validatorString(x)
        d0 == IF Ch(s, 1) \in {"-", "+"} THEN 2 ELSE 1
    IN  /\ isNumericString(s)
        /\ (Ch(s, d0) = "0" => Len(s) = d0)
        /\ numericValue(s) >= min
        /\ numericValue(s) <= max
\* isBoolean()
isBoolean(x) == validatorString(x) \in {"true", "false", "1", "0"}

\* an entry of errors.array()
validationError(path, value) ==
    JObj([type |-> JStr("field"), value |-> value, msg |-> JStr("Invalid value"),
          path |-> JStr(path), location |-> JStr("body")])

\* the errors of one chain: a field marked optional() is skipped when undefined
chainErrors(path, value, optional, checks) ==
    IF optional /\ value.t = "undefined" THEN <<>>
    ELSE [i \in 1..Cardinality({j \in 1..Len(checks) : ~checks[j]}) |->
            validationError(path, value)]

validationResult_promptOnly(body) ==
    chainErrors("prompt", Get(body, "prompt"), FALSE,
                <<isString(Get(body, "prompt")),
                  isLength(Get(body, "prompt"), PromptMinLength, PromptMaxLength)>>)
\* validationResult(req).array() after the chains of validateQuery
validationResult(body) ==
    LET loc == Get(body, "user_location")
    IN  chainErrors("prompt", Get(body, "prompt"), FALSE,
                    <<isString(Get(body, "prompt")),
                      isLength(Get(body, "prompt"), PromptMinLength, PromptMaxLength)>>)
        \o chainErrors("user_location", loc, TRUE, <<isObject(loc)>>)
        \o chainErrors("user_location.lat", Get(loc, "lat"), TRUE,
                       <<isFloat(Get(loc, "lat"), MinLat, MaxLat)>>)
        \o chainErrors("user_location.lng", Get(loc, "lng"), TRUE,
                       <<isFloat(Get(loc, "lng"), MinLng, MaxLng)>>)
        \o chainErrors("max_results", Get(body, "max_results"), TRUE,
                       <<isInt(Get(body, "max_results"), MinResults, MaxResults)>>)
        \o chainErrors("use_cache", Get(body, "use_cache"), TRUE,
                       <<isBoolean(Get(body, "use_cache"))>>)

\* handleValidationErrors: 400 with the errors, or next()
rejected(body) ==
    respond([idleRequest EXCEPT !.body = body], 400,
            JObj([errors |-> JArr(validationResult(body))]))
routed(body) ==
    IF validationResult(body) # <<>> THEN rejected(body) ELSE received(body)

\* The request arrives (validated); the handler runs to its first await.
Receive(r, body) ==
    /\ req[r].pc = "idle"
    /\ \A q \in 1..(r - 1) : req[q].pc # "idle"
    /\ req' = [req EXCEPT ![r] = received(body)]
    /\ UNCHANGED <<now, store, ext, maps, cacheCall>>

\* await cacheService.get(...cacheKey) returns; up: redis is reachable and its
\* command succeeds
CacheGetReturns(r, up) ==
    LET me == req[r]
        cachedResult == cacheGet(store, up, now, cacheKey(me.body))
        returned == [me EXCEPT !.getOk = up,
                               !.entryOf = IF truthy(cachedResult)
                                           THEN store[keyMemo[me.body]].writer ELSE 0]
    IN  /\ me.pc = "cacheGet"
        /\ req' = [req EXCEPT ![r] =
                    IF truthy(cachedResult)
                    THEN respond(returned, 200,
                                 hitResponse(cachedResult, me.requestId, now - me.startTime))
                    ELSE [returned EXCEPT !.pc = "extract",
                                          !.calls = Append(@, "llm.extract")]]
        /\ UNCHANGED <<now, store, ext, maps, cacheCall>>

\* await llmService.extractLocationEntities(prompt) returns
ExtractReturns(r, reply) ==
    LET me == req[r]
        entities == extractMemo[prompt(me.body), reply]
    IN  /\ me.pc = "extract"
        /\ req' = [req EXCEPT ![r] = afterExtract(me, entities)]
        /\ UNCHANGED <<now, store, ext, maps, cacheCall>>

\* await mapsService.searchPlaces(mapsQuery, userLocationStr, null, null) returns
SearchReturns(r, outcome) ==
    LET me == req[r]
        places == searchMemo[outcome]
    IN  /\ me.pc = "search"
        /\ req' = [req EXCEPT ![r] = afterSearch(me, places, outcome)]
        /\ UNCHANGED <<now, store, ext, maps, cacheCall>>

\* await llmService.generateResponse(mapsSummaryPrompt, ...) returns
NarrateReturns(r, reply) ==
    LET me == req[r]
        llmNarrative == generateResponse(reply)
        responseData == buildResponseData(llmNarrative.val, me.limitedPlaces,
                                          me.requestId, now - me.startTime)
        returned == [me EXCEPT !.limitedPlaces = JArr(<<>>), !.narrated = <<llmNarrative>>]
    IN  /\ me.pc = "narrate"
        /\ req' = [req EXCEPT ![r] =
                    IF ~llmNarrative.ok THEN caught(returned, generateError(reply))
                    ELSE IF use_cache(me.body)
                    THEN [returned EXCEPT !.pc = "cacheSet", !.responseData = responseData,
                                          !.calls = Append(@, "cache.set")]
                    ELSE respond(returned, 200, responseData)]
        /\ UNCHANGED <<now, store, ext, maps, cacheCall>>

\* The RAG variant of processQuery (findPlacesAndGenerateNarrativeWithRAG):
\* await mapsService.searchPlaces(...) returns; with no places the narrative is
\* asked for a friendly no-results text
RagSearchReturns(r, outcome) ==
    LET me == req[r]
        places == searchMemo[outcome]
        returned == [me EXCEPT !.mapsQuery = "", !.searched = <<outcome>>]
    IN  /\ me.pc = "search"
        /\ req' = [req EXCEPT ![r] =
                    IF ~places.ok THEN caught(returned, "Cannot read properties of undefined (reading 'length')")
                    ELSE IF noPlaces(places.val)
                    THEN [returned EXCEPT !.pc = "narrateEmpty",
                                          !.calls = Append(@, "llm.noResults")]
                    ELSE [returned EXCEPT
                            !.pc = "narrate",
                            !.limitedPlaces = limitPlaces(places.val, max_results(me.body)),
                            !.calls = Append(@, "llm.summary")]]
        /\ UNCHANGED <<now, store, ext, maps, cacheCall>>

\* await this.generateResponse(noResultsPrompt, ...) returns: the function returns
\* {llm_text, places: []} and the controller goes on as for any recommendation
RagNarrateEmptyReturns(r, reply) ==
    LET me == req[r]
        noResultsNarrative == generateResponse(reply)
        responseData == buildResponseData(noResultsNarrative.val, JArr(<<>>),
                                          me.requestId, now - me.startTime)
        returned == [me EXCEPT !.narrated = <<noResultsNarrative>>]
    IN  /\ me.pc = "narrateEmpty"
        /\ req' = [req EXCEPT ![r] =
                    IF ~noResultsNarrative.ok THEN caught(returned, generateError(reply))
                    ELSE IF use_cache(me.body)
                    THEN [returned EXCEPT !.pc = "cacheSet", !.responseData = responseData,
                                          !.calls = Append(@, "cache.set")]
                    ELSE respond(returned, 200, responseData)]
        /\ UNCHANGED <<now, store, ext, maps, cacheCall>>

\* await cacheService.set(responseData, 1800, ...cacheKey) returns; up: redis is
\* reachable and its command succeeds
CacheSetReturns(r, up) ==
    LET me == req[r]
    IN  /\ me.pc = "cacheSet"
        /\ store' = cacheSetStore(store, up, now, me.responseData, QueryTTL,
                                  cacheKey(me.body), r)
        /\ req' = [req EXCEPT ![r] =
                    respond([me EXCEPT !.setOk = cacheSetResult(up, me.responseData),
                                       !.responseData = JUndefined],
                            200, me.responseData)]
        /\ UNCHANGED <<now, ext, maps, cacheCall>>

\* time passes; redis drops what has expired
Tick ==
    /\ now < MaxNow
    /\ now' = now + TickMs
    /\ store' = expire(store, now')
    /\ UNCHANGED <<req, ext, maps, cacheCall>>

Init ==
    /\ now = 0
    /\ store = <<>>
    /\ req = [r \in Req |-> idleRequest]
    /\ ext = noExtract
    /\ maps = noMapsCall
    /\ cacheCall = noCacheCall

Next ==
    \/ \E r \in Req, body \in QueryBodies : Receive(r, body)
    \/ \E r \in Req, up \in BOOLEAN : CacheGetReturns(r, up)
    \/ \E r \in Req, reply \in ExtractReplies : ExtractReturns(r, reply)
    \/ \E r \in Req, outcome \in SearchOutcomes : SearchReturns(r, outcome)
    \/ \E r \in Req, reply \in NarrativeReplies : NarrateReturns(r, reply)
    \/ \E r \in Req, up \in BOOLEAN : CacheSetReturns(r, up)
    \/ Tick

Spec == Init /\ [][Next]_vars

\* the server with the RAG variant of processQuery as its query handler
NextRag ==
    \/ \E r \in Req, body \in QueryBodies : Receive(r, body)
    \/ \E r \in Req, up \in BOOLEAN : CacheGetReturns(r, up)
    \/ \E r \in Req, reply \in ExtractReplies : ExtractReturns(r, reply)
    \/ \E r \in Req, outcome \in SearchOutcomes : RagSearchReturns(r, outcome)
    \/ \E r \in Req, reply \in NarrativeReplies : RagNarrateEmptyReturns(r, reply)
    \/ \E r \in Req, reply \in NarrativeReplies : NarrateReturns(r, reply)
    \/ \E r \in Req, up \in BOOLEAN : CacheSetReturns(r, up)
    \/ Tick

SpecRag == Init /\ [][NextRag]_vars

(***************************************************************************)
(* The entity extractor on its own: extractLocationEntities applied to a   *)
(* prompt and to what the text-generation call ends in, and processQuery's *)
(* step after it.                                                          *)
(***************************************************************************)
ExtractPrompts ==
    { "kafe di bandung",
      "Find coffee shops in Jakarta",
      "Warung atau restoran enak di kota Malang",
      "hello there" }

\* Outputs that are a JSON object of the expected shape but for a trailing comma
\* and/or single-quoted strings, each with the well-formed JSON it stands for
RepairFixture(text, means) == [text |-> text, means |-> means]
RepairFixtures ==
    { RepairFixture("{\"place_names\":[],\"place_types\":[\"hotel\",],\"locations\":[\"Bali\"],}",
                    "{\"place_names\":[],\"place_types\":[\"hotel\"],\"locations\":[\"Bali\"]}"),
      RepairFixture("{'place_names':[],'place_types':['mall','Mall'],'locations':['Medan']}",
                    "{\"place_names\":[],\"place_types\":[\"mall\",\"Mall\"],\"locations\":[\"Medan\"]}"),
      RepairFixture("{'place_names':['Warung MJS',],'place_types':['restaurant'],'locations':['Bandung'] , }",
                    "{\"place_names\":[\"Warung MJS\"],\"place_types\":[\"restaurant\"],\"locations\":[\"Bandung\"]}"),
      RepairFixture("{\"place_names\":[\"Joe's Diner\"],\"place_types\":[\"restaurant\",],\"locations\":[\"Bandung\"]}",
                    "{\"place_names\":[\"Joe's Diner\"],\"place_types\":[\"restaurant\"],\"locations\":[\"Bandung\"]}") }

\* Outputs that are a valid JSON object with prose around it, each with the object
ProseFixtures ==
    { RepairFixture("Here you go: {\"place_names\":[],\"place_types\":[\"cafe\"],\"locations\":[]}",
                    "{\"place_names\":[],\"place_types\":[\"cafe\"],\"locations\":[]}"),
      RepairFixture("{\"place_names\":[],\"place_types\":[\"hotel\"],\"locations\":[\"Bali\"]} Hope this helps!",
                    "{\"place_names\":[],\"place_types\":[\"hotel\"],\"locations\":[\"Bali\"]}"),
      RepairFixture("Sure. {\"place_names\":[\"Warung MJS\"],\"place_types\":[],\"locations\":[\"Malang\"]} Enjoy.",
                    "{\"place_names\":[\"Warung MJS\"],\"place_types\":[],\"locations\":[\"Malang\"]}") }

\* What the text-generation call can end in, with what kind of outcome it is:
\* "error" (the call fails), "unparseable" (text no repair makes JSON), "json" (text
\* that is JSON as it stands or between fences), "repairable" (JSON but for single
\* quotes or a trailing comma)
LlmOutcome(kind, reply) == [kind |-> kind, reply |-> reply]
LlmOutcomes ==
    { LlmOutcome("error", LlmError),
      LlmOutcome("error", LlmData(JObj([done |-> JBool(TRUE)]))),
      LlmOutcome("error", LlmData(JObj([message |-> JObj([content |-> JNum(5)])]))),
      LlmOutcome("unparseable", OllamaText("Sure! Here are the entities you asked for.")),
      LlmOutcome("unparseable", OllamaText("{place_types: [cafe]}")),
      LlmOutcome("json",
                 OllamaText("{\"place_names\":[\"Warung MJS\"],\"place_types\":[\"restaurant\"],\"locations\":[\"Bandung\"]}")),
      LlmOutcome("json",
                 OllamaText(FenceOpen \o "\n{\"place_names\":[],\"place_types\":[\"Kafe\",\"cafe\",\" Cafe \"],\"locations\":[\"Bandung\",\"bandung \"]}\n" \o FenceClose)),
      LlmOutcome("json",
                 OllamaText("{\"place_names\":[\" Aroma Kopi\",\"Aroma Kopi\",\"\",null,{\"a\":1},7,7],\"place_types\":[null,\"\",\"taman\",\"park\"],\"locations\":[1,1,true]}")),
      LlmOutcome("json", OllamaText("{\"place_types\":[\"constructor\",\"Constructor\",\"__proto__\",\"__proto__\"]}")),
      LlmOutcome("json", OllamaText("{\"place_names\":\"Warung MJS\",\"place_types\":\"cafe\",\"locations\":{\"0\":\"Bandung\"}}")),
      LlmOutcome("json", OllamaText("{\"place_names\":[],\"place_types\":[5],\"locations\":[\"Jakarta\"]}")),
      LlmOutcome("json", OllamaText("{\"place_names\":[],\"place_types\":[[\"cafe\"],{\"t\":\"cafe\"}],\"locations\":[]}")),
      LlmOutcome("json", OllamaText("{}")),
      LlmOutcome("json", OllamaText("[\"cafe\",\"cafe\"]")),
      LlmOutcome("json", OllamaText("null")),
      LlmOutcome("json", OllamaText("42")),
      LlmOutcome("json", OllamaText("\"cafe in Bandung\"")),
      LlmOutcome("json", OllamaText("true")) }
    \cup { LlmOutcome("repairable", OllamaText(f.text)) : f \in RepairFixtures }
    \cup { LlmOutcome("unparseable", OllamaText(f.text)) : f \in ProseFixtures }

\* extractLocationEntities(text) returns, the text-generation call having ended in
\* outcome.reply
ExtractRuns ==
    /\ ext.pc = "called"
    /\ ext' = [ext EXCEPT !.pc = "returned",
                          !.result = extractLocationEntities(ext.text, ext.outcome.reply)]
    /\ UNCHANGED <<now, store, req, maps, cacheCall>>

\* processQuery, awaiting the extractor for a request with this prompt, goes on
ExtractProceeds ==
    /\ ext.pc = "returned"
    /\ ext' = [ext EXCEPT
                !.pc = "proceeded",
                !.request = afterExtract(
                    received(queryBody(ext.text, JUndefined, JUndefined, JBool(FALSE))),
                    ext.result)]
    /\ UNCHANGED <<now, store, req, maps, cacheCall>>

InitExtract ==
    /\ now = 0
    /\ store = <<>>
    /\ req = [r \in Req |-> idleRequest]
    /\ maps = noMapsCall
    /\ cacheCall = noCacheCall
    /\ ext \in {[pc |-> "called", text |-> t, outcome |-> o, result |-> Throw,
                 request |-> idleRequest] : t \in ExtractPrompts, o \in LlmOutcomes}

NextExtract ==
    \/ ExtractRuns
    \/ ExtractProceeds

SpecExtract == InitExtract /\ [][NextExtract]_vars

(***************************************************************************)
(* The maps service on its own: searchPlaces, nearbySearch and             *)
(* getPlaceDetails applied to what the provider call ends in, and          *)
(* processQuery's step after searchPlaces.                                 *)
(***************************************************************************)
placesNearbyResults(places) == ProviderData(JObj([status |-> JStr("OK"), results |-> JArr(places)]))
placeDetailsResult(place) == ProviderData(JObj([status |-> JStr("OK"), result |-> place]))

\* n provider results: PlaceA, PlaceB, PlaceC, PlaceA, ...
somePlaces(n) == [i \in 1..n |-> <<PlaceA, PlaceB, PlaceC>>[((i - 1) % 3) + 1]]

\* What the provider call of a search can end in, with what kind of outcome it is:
\* "error" (the call fails), "malformed" (a response the formatting throws on),
\* "results" (a response with a list of places, possibly empty)
ProviderOutcome(kind, reply) == [kind |-> kind, reply |-> reply]
ListOutcomes ==
    { ProviderOutcome("error", ProviderError),
      ProviderOutcome("malformed", ProviderData(JUndefined)),
      ProviderOutcome("malformed", ProviderData(JObj([status |-> JStr("REQUEST_DENIED")]))),
      ProviderOutcome("malformed", ProviderData(JObj([results |-> JNull]))),
      ProviderOutcome("malformed", ProviderData(JObj([results |-> JObj([n |-> JNum(0)])]))),
      ProviderOutcome("malformed", textSearchResults(<<JNull>>)),
      ProviderOutcome("malformed", textSearchResults(<<PlaceA, JNull, PlaceB>>)) }
    \cup { ProviderOutcome("results", textSearchResults(somePlaces(n))) :
              n \in 0..(MaxProviderResults + 1) }
    \cup { ProviderOutcome("results", textSearchResults(<<JObj([name |-> JStr("Kopi")])>>)),
           ProviderOutcome("results", textSearchResults(<<JStr("Kopi"), JNum(7)>>)) }

Review(author) ==
    JObj([author_name |-> JStr(author), rating |-> JNum(5), text |-> JStr("enak"),
          relative_time_description |-> JStr("a week ago")])
Photo(ref) == JObj([photo_reference |-> JStr(ref), width |-> JNum(400)])

\* What the provider call of a details lookup can end in: also "none" (a response
\* without a result) and "result" (a response with a place)
DetailsOutcomes ==
    { ProviderOutcome("error", ProviderError),
      ProviderOutcome("malformed", ProviderData(JUndefined)),
      ProviderOutcome("malformed", placeDetailsResult(With(PlaceA, "reviews", JObj([n |-> JNum(1)])))),
      ProviderOutcome("malformed", placeDetailsResult(With(PlaceA, "reviews", JArr(<<Review("Ani"), JNull>>)))),
      ProviderOutcome("malformed", placeDetailsResult(With(PlaceB, "photos", JStr("none")))),
      ProviderOutcome("malformed", placeDetailsResult(With(PlaceB, "photos", JArr(<<JNull>>)))),
      ProviderOutcome("none", ProviderData(JObj([status |-> JStr("NOT_FOUND")]))),
      ProviderOutcome("none", placeDetailsResult(JNull)),
      ProviderOutcome("result", placeDetailsResult(PlaceA)),
      ProviderOutcome("result", placeDetailsResult(PlaceC)),
      ProviderOutcome("result",
                      placeDetailsResult(With(With(PlaceB,
                          "reviews", JArr(<<Review("Ani"), Review("Budi"), Review("Citra"), Review("Dewi")>>)),
                          "photos", JArr(<<Photo("p1"), JObj([width |-> JNum(1)]), Photo("p2"), Photo("p3")>>)))),
      ProviderOutcome("result", placeDetailsResult(JStr("ChIJa"))) }

MapsCalls ==
    {[op |-> op, outcome |-> o] : op \in {"searchPlaces", "nearbySearch"}, o \in ListOutcomes}
    \cup {[op |-> "getPlaceDetails", outcome |-> o] : o \in DetailsOutcomes}

\* the service method returns
MapsRuns ==
    /\ maps.pc = "called"
    /\ maps' = [maps EXCEPT
                !.pc = "returned",
                !.result = CASE maps.op = "searchPlaces" -> searchPlaces(maps.outcome.reply)
                             [] maps.op = "nearbySearch" -> nearbySearch(maps.outcome.reply)
                             [] maps.op = "getPlaceDetails" -> getPlaceDetails(maps.outcome.reply)]
    /\ UNCHANGED <<now, store, req, ext, cacheCall>>

\* processQuery, awaiting searchPlaces for a request with this body, goes on
SearchProceeds(body) ==
    /\ maps.pc = "returned"
    /\ maps.op = "searchPlaces"
    /\ maps' = [maps EXCEPT
                !.pc = "proceeded",
                !.request = afterSearch(
                    afterExtract(received(With(body, "use_cache", JBool(FALSE))),
                                 fallbackEntities(prompt(body))),
                    maps.result, maps.outcome.reply)]
    /\ UNCHANGED <<now, store, req, ext, cacheCall>>

InitMaps ==
    /\ now = 0
    /\ store = <<>>
    /\ req = [r \in Req |-> idleRequest]
    /\ ext = noExtract
    /\ cacheCall = noCacheCall
    /\ maps \in {[pc |-> "called", op |-> c.op, outcome |-> c.outcome, result |-> Throw,
                  request |-> idleRequest] : c \in MapsCalls}

NextMaps ==
    \/ MapsRuns
    \/ \E body \in QueryBodies : SearchProceeds(body)

SpecMaps == InitMaps /\ [][NextMaps]_vars

(***************************************************************************)
(* The cache service called directly, next to the query handler, with a    *)
(* store that may hold entries of earlier traffic.                         *)
(***************************************************************************)
counterArgs == <<JStr("rate"), JStr("10.0.0.7")>>
queryArgs == cacheKey(queryBody("kafe di bandung", JUndefined, JUndefined, JUndefined))
CacheArgs == {counterArgs, queryArgs}

\* a response cached by an earlier request, and a counter
earlierEntries ==
    [k \in {generateKey(queryArgs), generateKey(counterArgs)} |->
        IF k = generateKey(queryArgs)
        THEN [value |-> jsonRoundTrip(buildResponseData(JStr("Kopi Tiga enak."),
                            limitPlaces(searchPlaces(textSearchResults(<<PlaceC>>)).val,
                                        DefaultMaxResults),
                            "req_-1", 7)),
              expiresAt |-> QueryTTL * 1000, writer |-> 0]
        ELSE [value |-> JNum(3), expiresAt |-> CounterTTL * 1000, writer |-> 0]]
CacheStores == {<<>>, earlierEntries}

\* the values the direct calls of set are given: one of them has no JSON text
CacheValues == {JNum(1), JObj([name |-> JStr("Kopi Satu")]), JUndefined}

cacheReturned(op, errored, result) ==
    [pc |-> "returned", op |-> op, errored |-> errored, result |-> result]

\* cacheService.get(...args)
CacheGet(args, up) ==
    /\ cacheCall.pc = "none"
    /\ cacheCall' = cacheReturned("get", ~up, cacheGet(store, up, now, args))
    /\ UNCHANGED <<now, store, req, ext, maps>>

\* cacheService.set(value, null, ...args)
CacheSet(value, args, up) ==
    /\ cacheCall.pc = "none"
    /\ cacheCall' = cacheReturned("set", ~up \/ ~serializable(value),
                                  JBool(cacheSetResult(up, value)))
    /\ store' = cacheSetStore(store, up, now, value, 0, args, 0)
    /\ UNCHANGED <<now, req, ext, maps>>

\* cacheService.delete(...args)
CacheDelete(args, up) ==
    /\ cacheCall.pc = "none"
    /\ cacheCall' = cacheReturned("delete", ~up,
                                  JBool(cacheDeleteResult(store, up, now, args)))
    /\ store' = cacheDeleteStore(store, up, args)
    /\ UNCHANGED <<now, req, ext, maps>>

\* cacheService.increment(...args)
CacheIncrement(args, incrUp, expireUp) ==
    /\ cacheCall.pc = "none"
    /\ cacheCall' = cacheReturned("increment", ~incrOk(store, incrUp, now, args) \/ ~expireUp,
                                  JNum(cacheIncrementResult(store, incrUp, expireUp, now, args)))
    /\ store' = cacheIncrementStore(store, incrUp, expireUp, now, args)
    /\ UNCHANGED <<now, req, ext, maps>>

InitCache ==
    /\ now = 0
    /\ store \in CacheStores
    /\ req = [r \in Req |-> idleRequest]
    /\ ext = noExtract
    /\ maps = noMapsCall
    /\ cacheCall = noCacheCall

NextCache ==
    \/ \E args \in CacheArgs, up \in BOOLEAN : CacheGet(args, up)
    \/ \E value \in CacheValues, args \in CacheArgs, up \in BOOLEAN : CacheSet(value, args, up)
    \/ \E args \in CacheArgs, up \in BOOLEAN : CacheDelete(args, up)
    \/ \E args \in CacheArgs, incrUp \in BOOLEAN, expireUp \in BOOLEAN :
            CacheIncrement(args, incrUp, expireUp)
    \/ \E r \in Req, body \in QueryBodies : Receive(r, body)
    \/ \E r \in Req, up \in BOOLEAN : CacheGetReturns(r, up)
    \/ \E r \in Req, reply \in ExtractReplies : ExtractReturns(r, reply)
    \/ \E r \in Req, outcome \in SearchOutcomes : SearchReturns(r, outcome)
    \/ \E r \in Req, reply \in NarrativeReplies : NarrateReturns(r, reply)
    \/ \E r \in Req, up \in BOOLEAN : CacheSetReturns(r, up)

SpecCache == InitCache /\ [][NextCache]_vars

(***************************************************************************)
(* POST /query behind its validation: the route of queryRoutes.js, with    *)
(* bodies that pass validateQuery and bodies that do not.                  *)
(***************************************************************************)
\* POST /query: validateQuery, handleValidationErrors, then processQuery to its first
\* await
Route(r, body) ==
    /\ req[r].pc = "idle"
    /\ \A q \in 1..(r - 1) : req[q].pc # "idle"
    /\ req' = [req EXCEPT ![r] = routed(body)]
    /\ UNCHANGED <<now, store, ext, maps, cacheCall>>

NextRoute ==
    \/ \E r \in Req, input \in RouteInputs : Route(r, input.body)
    \/ \E r \in Req, up \in BOOLEAN : CacheGetReturns(r, up)
    \/ \E r \in Req, reply \in ExtractReplies : ExtractReturns(r, reply)
    \/ \E r \in Req, outcome \in SearchOutcomes : SearchReturns(r, outcome)
    \/ \E r \in Req, reply \in NarrativeReplies : NarrateReturns(r, reply)
    \/ \E r \in Req, up \in BOOLEAN : CacheSetReturns(r, up)
    \/ Tick

SpecRoute == Init /\ [][NextRoute]_vars

(***************************************************************************)
(* queryController.js: nearbySearch, the handler of POST /nearby.          *)
(***************************************************************************)
\* radius = 1000 of the destructuring of req.body
DefaultRadius == 1000

nearbyBody(location, place_type, radius, keyword) ==
    jsonRoundTrip(JObj([location |-> location, place_type |-> place_type,
                        radius |-> radius, keyword |-> keyword]))
NearbyBodies ==
    { nearbyBody(location, place_type, radius, keyword) :
        location \in {Jakarta, JStr("-6,106"), JUndefined, JNull},
        place_type \in {JStr("cafe"), JStr("restaurant"), JStr(""), JUndefined, JNull},
        radius \in {JUndefined, JNum(500)},
        keyword \in {JUndefined, JStr("kopi")} }

\* the arguments of mapsService.nearbySearch
nearbyCall(body) ==
    [location |-> String(Get(Get(body, "location"), "lat")) \o ","
                  \o String(Get(Get(body, "location"), "lng")),
     placeType |-> Get(body, "place_type"),
     radius |-> IF Get(body, "radius").t = "undefined" THEN JNum(DefaultRadius)
                ELSE Get(body, "radius"),
     keyword |-> Get(body, "keyword")]

idleNearby == [pc |-> "idle", body |-> JUndefined, calls |-> <<>>, status |-> 0,
               sent |-> JUndefined]

nearbyReceived_locationOnly(body) ==
    IF ~truthy(Get(body, "location"))
    THEN [idleNearby EXCEPT !.pc = "done", !.body = body, !.status = 400,
            !.sent = JObj([error |-> JStr("Location and place_type are required")])]
    ELSE [idleNearby EXCEPT !.pc = "nearby", !.body = body, !.calls = <<nearbyCall(body)>>]
\* nearbySearch from its start to its await
nearbyReceived(body) ==
    IF ~truthy(Get(body, "location")) \/ ~truthy(Get(body, "place_type"))
    THEN [idleNearby EXCEPT !.pc = "done", !.body = body, !.status = 400,
            !.sent = JObj([error |-> JStr("Location and place_type are required")])]
    ELSE [idleNearby EXCEPT !.pc = "nearby", !.body = body, !.calls = <<nearbyCall(body)>>]

\* nearbySearch from the return of mapsService.nearbySearch to its end
nearbyAnswered(me, results) ==
    IF ~results.ok
    THEN [me EXCEPT !.pc = "done", !.status = 500,
                    !.sent = JObj([error |-> JStr("Nearby search failed")])]
    ELSE [me EXCEPT !.pc = "done", !.status = 200,
                    !.sent = jsonRoundTrip(JObj([places |-> results.val,
                                                 total |-> JNum(Len(results.val.v))]))]

\* POST /nearby arrives
NearbyReceive(body) ==
    /\ maps = noMapsCall
    /\ maps' = nearbyReceived(body)
    /\ UNCHANGED <<now, store, req, ext, cacheCall>>

\* await mapsService.nearbySearch(...) returns
NearbyReturns(outcome) ==
    /\ maps.pc = "nearby"
    /\ maps' = nearbyAnswered(maps, nearbySearch(outcome))
    /\ UNCHANGED <<now, store, req, ext, cacheCall>>

NextNearby ==
    \/ \E body \in NearbyBodies : NearbyReceive(body)
    \/ \E input \in ListOutcomes : NearbyReturns(input.reply)

SpecNearby == Init /\ [][NextNearby]_vars

(***************************************************************************)
(* The cache service over time: sets, gets and deletes of a few keys with  *)
(* the clock running, each call recorded with its time and result.         *)
(***************************************************************************)
MaxCacheCalls == 3

placeArgs == <<JStr("place"), JStr("ChIJa")>>
TripArgs == {placeArgs, <<JStr("ChIJa"), JStr("place")>>}
\* values given to set: falsy ones, a details record with a member left undefined,
\* and undefined
TripValues ==
    { JNum(0), JStr(""),
      JObj([name |-> JStr("Kopi Satu"), rating |-> JUndefined,
            types |-> JArr(<<JStr("cafe")>>)]),
      JUndefined }
\* the ttl given to set, in seconds; 0 stands for null
TripTTLs == {0, TickMs \div 1000}

cacheLog == IF cacheCall.pc = "log" THEN cacheCall.log ELSE <<>>
logged(entry) == [pc |-> "log", log |-> Append(cacheLog, entry)]

\* cacheService.set(value, ttl, ...args) with redis reachable
TripSet(value, ttl, args) ==
    /\ Len(cacheLog) < MaxCacheCalls
    /\ cacheCall' = logged([op |-> "set", args |-> args, value |-> value, ttl |-> ttl,
                            at |-> now, result |-> JBool(cacheSetResult(TRUE, value))])
    /\ store' = cacheSetStore(store, TRUE, now, value, ttl, args, 0)
    /\ UNCHANGED <<now, req, ext, maps>>

\* cacheService.get(...args) with redis reachable
TripGet(args) ==
    /\ Len(cacheLog) < MaxCacheCalls
    /\ cacheCall' = logged([op |-> "get", args |-> args, value |-> JUndefined, ttl |-> 0,
                            at |-> now, result |-> cacheGet(store, TRUE, now, args)])
    /\ UNCHANGED <<now, store, req, ext, maps>>

\* cacheService.delete(...args) with redis reachable
TripDelete(args) ==
    /\ Len(cacheLog) < MaxCacheCalls
    /\ cacheCall' = logged([op |-> "delete", args |-> args, value |-> JUndefined, ttl |-> 0,
                            at |-> now,
                            result |-> JBool(cacheDeleteResult(store, TRUE, now, args))])
    /\ store' = cacheDeleteStore(store, TRUE, args)
    /\ UNCHANGED <<now, req, ext, maps>>

NextTrip ==
    \/ \E value \in TripValues, ttl \in TripTTLs, args \in TripArgs : TripSet(value, ttl, args)
    \/ \E args \in TripArgs : TripGet(args)
    \/ \E args \in TripArgs : TripDelete(args)
    \/ Tick

SpecTrip == Init /\ [][NextTrip]_vars

(***************************************************************************)
(* generateKey on its own: the keys of two key parts in both orders.       *)
(***************************************************************************)
KeyParts ==
    { JStr("x"), JStr("xx"), JStr("y"), JStr(""), JStr("1"), JStr(":"), JStr("x:x"),
      JStr("x:y"), JStr("kafe di bandung"), JNum(1), JNull, JUndefined }

\* generateKey(a, b), generateKey(b, a), and generateKey(a, b) once more
KeyRuns ==
    /\ cacheCall.pc = "parts"
    /\ cacheCall' = [cacheCall EXCEPT
                        !.pc = "keys",
                        !.ab = generateKey(<<cacheCall.a, cacheCall.b>>),
                        !.ba = generateKey(<<cacheCall.b, cacheCall.a>>),
                        !.again = generateKey(<<cacheCall.a, cacheCall.b>>)]
    /\ UNCHANGED <<now, store, req, ext, maps>>

InitKey ==
    /\ now = 0
    /\ store = <<>>
    /\ req = [r \in Req |-> idleRequest]
    /\ ext = noExtract
    /\ maps = noMapsCall
    /\ cacheCall \in {[pc |-> "parts", a |-> a, b |-> b, ab |-> "", ba |-> "", again |-> ""] :
                        a \in KeyParts, b \in KeyParts}

NextKey == KeyRuns

SpecKey == InitKey /\ [][NextKey]_vars

(***************************************************************************)
(* _normalizePlaceType on its own: applied to a place-type string, and     *)
(* again to what it returned.                                              *)
(***************************************************************************)
TypeWords ==
    {placeTypeMap[i][1] : i \in 1..Len(placeTypeMap)}
    \cup {placeTypeMap[i][2] : i \in 1..Len(placeTypeMap)}
    \cup {"Kafe", "WARUNG", "Coffee Shop", "Tempat Wisata", "museum", "Apotek", "bar",
          "constructor", "__proto__", "Constructor", ""}
TypeStrings == {a \o w \o b : w \in TypeWords, a \in {"", " "}, b \in {"", " "}}

\* _normalizePlaceType(type) returns
TypeNormalized ==
    /\ ext.pc = "type"
    /\ ext' = [ext EXCEPT !.pc = "normalized", !.once = _normalizePlaceType(JStr(ext.type))]
    /\ UNCHANGED <<now, store, req, maps, cacheCall>>

\* _normalizePlaceType applied to what it returned
TypeNormalizedAgain ==
    /\ ext.pc = "normalized"
    /\ ext.once.ok
    /\ ext' = [ext EXCEPT !.pc = "again", !.twice = _normalizePlaceType(ext.once.val)]
    /\ UNCHANGED <<now, store, req, maps, cacheCall>>

InitType ==
    /\ now = 0
    /\ store = <<>>
    /\ req = [r \in Req |-> idleRequest]
    /\ maps = noMapsCall
    /\ cacheCall = noCacheCall
    /\ ext \in {[pc |-> "type", type |-> t, once |-> Throw, twice |-> Throw] : t \in TypeStrings}

NextType ==
    \/ TypeNormalized
    \/ TypeNormalizedAgain

SpecType == InitType /\ [][NextType]_vars

(***************************************************************************)
(* The handler of GET /place/:placeId (getPlaceDetails of the controller): *)
(* lookups one after the other, against the cache and the provider.        *)
(***************************************************************************)
DetailsTTL == 3600
MaxLookups == 3
PlaceIds == {"ChIJa", "ChIJb"}

\* for the record: found holds the ids the provider has returned a record for,
\* missed the ids of the lookups answered not-found, lookups counts the requests
idleDetails == [pc |-> "idle", placeId |-> "", calls |-> <<>>, status |-> 0,
                sent |-> JUndefined, details |-> JUndefined, found |-> {}, missed |-> {},
                lookups |-> 0]

placeKey(placeId) == <<JStr("place"), JStr(placeId)>>

\* getPlaceDetails of the controller from its start to its first await
detailsReceived(me, placeId) ==
    [me EXCEPT !.pc = "cacheGet", !.placeId = placeId, !.calls = <<"cache.get">>,
               !.status = 0, !.sent = JUndefined, !.details = JUndefined,
               !.lookups = @ + 1]

\* from the return of cacheService.get to the next await
detailsCacheRead(me, cachedDetails) ==
    IF truthy(cachedDetails)
    THEN [me EXCEPT !.pc = "done", !.status = 200, !.sent = jsonRoundTrip(cachedDetails)]
    ELSE [me EXCEPT !.pc = "lookup", !.calls = Append(@, "maps.placeDetails")]

detailsLookedUp_cacheAnything(me, details) ==
    [me EXCEPT !.pc = "cacheSet", !.details = details.val, !.calls = Append(@, "cache.set")]
\* from the return of mapsService.getPlaceDetails to the next await
detailsLookedUp(me, details) ==
    IF ~details.ok
    THEN [me EXCEPT !.pc = "done", !.status = 500,
                    !.sent = JObj([error |-> JStr("Failed to get place details")])]
    ELSE IF ~truthy(details.val)
    THEN [me EXCEPT !.pc = "done", !.status = 404,
                    !.sent = JObj([error |-> JStr("Place not found")])]
    ELSE [me EXCEPT !.pc = "cacheSet", !.details = details.val,
                    !.calls = Append(@, "cache.set")]

\* the provider's response holds a record
hasRecord(outcome) == ~outcome.err /\ truthy(Get(outcome.data, "result"))

DetailsReceive(placeId) ==
    /\ maps.pc \in {"idle", "done"}
    /\ maps.lookups < MaxLookups
    /\ maps' = detailsReceived(maps, placeId)
    /\ UNCHANGED <<now, store, req, ext, cacheCall>>

DetailsCacheGetReturns(up) ==
    /\ maps.pc = "cacheGet"
    /\ maps' = detailsCacheRead(maps, cacheGet(store, up, now, placeKey(maps.placeId)))
    /\ UNCHANGED <<now, store, req, ext, cacheCall>>

DetailsLookupReturns(outcome) ==
    /\ maps.pc = "lookup"
    /\ maps' = [detailsLookedUp(maps, getPlaceDetails(outcome)) EXCEPT
                    !.found = IF hasRecord(outcome) THEN @ \cup {maps.placeId} ELSE @,
                    !.missed = IF ~truthy(getPlaceDetails(outcome).val)
                               THEN @ \cup {maps.placeId} ELSE @]
    /\ UNCHANGED <<now, store, req, ext, cacheCall>>

DetailsCacheSetReturns(up) ==
    /\ maps.pc = "cacheSet"
    /\ store' = cacheSetStore(store, up, now, maps.details, DetailsTTL,
                              placeKey(maps.placeId), maps.lookups)
    /\ maps' = [maps EXCEPT !.pc = "done", !.status = 200,
                            !.sent = jsonRoundTrip(maps.details), !.details = JUndefined]
    /\ UNCHANGED <<now, req, ext, cacheCall>>

InitDetails ==
    /\ now = 0
    /\ store = <<>>
    /\ req = [r \in Req |-> idleRequest]
    /\ ext = noExtract
    /\ cacheCall = noCacheCall
    /\ maps = idleDetails

NextDetails ==
    \/ \E placeId \in PlaceIds : DetailsReceive(placeId)
    \/ \E up \in BOOLEAN : DetailsCacheGetReturns(up)
    \/ \E o \in DetailsOutcomes : DetailsLookupReturns(o.reply)
    \/ \E up \in BOOLEAN : DetailsCacheSetReturns(up)

SpecDetails == InitDetails /\ [][NextDetails]_vars

(***************************************************************************)
(* The reconnect strategy of the redis client: connection attempts failing *)
(* one after the other.                                                    *)
(***************************************************************************)
ReconnectStep == 100
ReconnectCeiling == 10000
MaxRetries == 120

\* Math.min(retries * 100, 10000)
reconnectStrategy(retries) ==
    IF retries * ReconnectStep < ReconnectCeiling THEN retries * ReconnectStep
    ELSE ReconnectCeiling

\* a connection attempt fails: the client asks the strategy for the delay before the
\* next one, passing the number of attempts made so far
ConnectFails ==
    /\ cacheCall.pc = "connecting"
    /\ cacheCall.retries < MaxRetries
    /\ cacheCall' = [cacheCall EXCEPT
                        !.retries = @ + 1,
                        !.waits = IF Len(@) < 3 THEN Append(@, reconnectStrategy(cacheCall.retries))
                                  ELSE Append(Tail(@), reconnectStrategy(cacheCall.retries))]
    /\ UNCHANGED <<now, store, req, ext, maps>>

InitReconnect ==
    /\ now = 0
    /\ store = <<>>
    /\ req = [r \in Req |-> idleRequest]
    /\ ext = noExtract
    /\ maps = noMapsCall
    /\ cacheCall = [pc |-> "connecting", retries |-> 0, waits |-> <<>>]

NextReconnect == ConnectFails

SpecReconnect == InitReconnect /\ [][NextReconnect]_vars

(***************************************************************************)
(* The handlers of /query and /place/:placeId against the same cache: one  *)
(* query request and place-details lookups, interleaved.                   *)
(***************************************************************************)
InitShared == InitDetails

NextShared ==
    \/ \E body \in SharedBodies : Route(1, body)
    \/ \E up \in BOOLEAN : CacheGetReturns(1, up)
    \/ \E reply \in ExtractReplies : ExtractReturns(1, reply)
    \/ \E outcome \in SearchOutcomes : SearchReturns(1, outcome)
    \/ \E reply \in NarrativeReplies : NarrateReturns(1, reply)
    \/ \E up \in BOOLEAN : CacheSetReturns(1, up)
    \/ \E placeId \in SharedIds : DetailsReceive(placeId)
    \/ \E up \in BOOLEAN : DetailsCacheGetReturns(up)
    \/ \E o \in DetailsOutcomes : DetailsLookupReturns(o.reply)
    \/ \E up \in BOOLEAN : DetailsCacheSetReturns(up)

SpecShared == InitShared /\ [][NextShared]_vars

(***************************************************************************)
(* processQuery over time: one query request, with a cache store that is   *)
(* reachable or not.  The calls to the text-generation backend and to the  *)
(* maps provider have timeouts and always return.  A redis command has     *)
(* none: the client queues it while the store is unreachable and retries   *)
(* the connection for ever (reconnectStrategy never gives up), so the      *)
(* command ends, in an error, only if the client drops it.                 *)
(***************************************************************************)
redisClient(ready) == [pc |-> "redis", ready |-> ready]

\* cacheService.get of the request ends
LiveCacheGetReturns ==
    \/ cacheCall.ready /\ \E up \in BOOLEAN : CacheGetReturns(1, up)
    \/ ~cacheCall.ready /\ CacheGetReturns(1, FALSE)

\* cacheService.set of the request ends
LiveCacheSetReturns ==
    \/ cacheCall.ready /\ \E up \in BOOLEAN : CacheSetReturns(1, up)
    \/ ~cacheCall.ready /\ CacheSetReturns(1, FALSE)

LiveExtractReturns == \E reply \in ExtractReplies : ExtractReturns(1, reply)
LiveSearchReturns == \E outcome \in SearchOutcomes : SearchReturns(1, outcome)
LiveNarrateReturns == \E reply \in NarrativeReplies : NarrateReturns(1, reply)

InitLive ==
    /\ now = 0
    /\ store = <<>>
    /\ req = [r \in Req |-> idleRequest]
    /\ ext = noExtract
    /\ maps = noMapsCall
    /\ cacheCall \in {redisClient(TRUE), redisClient(FALSE)}

NextLive ==
    \/ \E input \in {x \in RouteInputs : x.kind = "valid"} : Route(1, input.body)
    \/ \E body \in QueryBodies : Receive(1, body)
    \/ LiveCacheGetReturns
    \/ LiveExtractReturns
    \/ LiveSearchReturns
    \/ LiveNarrateReturns
    \/ LiveCacheSetReturns
    \/ Tick

\* a command to a reachable store, and every call with a timeout, ends
SpecLive ==
    /\ InitLive /\ [][NextLive]_vars
    /\ WF_vars(cacheCall.ready /\ LiveCacheGetReturns)
    /\ WF_vars(cacheCall.ready /\ LiveCacheSetReturns)
    /\ WF_vars(LiveExtractReturns)
    /\ WF_vars(LiveSearchReturns)
    /\ WF_vars(LiveNarrateReturns)

(***************************************************************************)
(* Properties of processQuery                                              *)
(***************************************************************************)
Range(seq) == {seq[i] : i \in 1..Len(seq)}
Done(r) == req[r].pc = "done"
\* the provider search of request r has returned; the number of places it gave
Searched(r) == req[r].searched # <<>>
Found(r) == Len(searchMemo[req[r].searched[1]].val.v)
\* the narrative call of request r has returned, and failed
NarrativeFailed(r) == req[r].narrated # <<>> /\ ~req[r].narrated[1].ok
\* request r was answered from the cache lookup
ServedFromCache(r) == Done(r) /\ req[r].calls = <<"cache.get">>
WrittenBy(r) == {k \in DOMAIN store : store[k].writer = r}
SameQuery(a, b) ==
    /\ prompt(req[a].body) = prompt(req[b].body)
    /\ user_location(req[a].body) = user_location(req[b].body)
Field(r, f) == req[r].sent.v[f]

\* C1: a request whose provider search gave no places is answered not-found: status
\* 404, a body of exactly error and request_id (no places member), and the summary
\* call of the narrative generator is never issued for it.
C1_NotFoundOnEmpty ==
    \A r \in Req : Searched(r) /\ Found(r) = 0 =>
        /\ Done(r)
        /\ req[r].status = 404
        /\ DOMAIN req[r].sent.v = {"error", "request_id"}
        /\ Field(r, "request_id") = JStr(req[r].requestId)
        /\ "llm.summary" \notin Range(req[r].calls)

C1_Witness ==
    \E r \in Req : /\ Searched(r) /\ ~req[r].searched[1].err /\ Found(r) = 0
                   /\ Done(r) /\ req[r].status = 404

\* C2: every success response holds at most max_results places of the request it
\* answers (5 when omitted), also when it is served from the cache.
C2_AtMostMaxResults ==
    \A r \in Req : Done(r) /\ req[r].status = 200 =>
        Len(Field(r, "places").v) <= max_results(req[r].body)

\* C3, as claimed: a response served from the cache equals the value that was cached
\* in every field except cached and processing_time.
C3_OnlyTwoRecomputed ==
    \A r \in Req : ServedFromCache(r) =>
        /\ DOMAIN req[r].sent.v = DOMAIN req[req[r].entryOf].sent.v
        /\ \A f \in DOMAIN req[r].sent.v \ {"cached", "processing_time"} :
              Field(r, f) = Field(req[r].entryOf, f)

\* C3, amended: a response served from the cache equals the value that was cached in
\* every field except cached, processing_time and request_id; these three are set
\* for the hit: cached is true, request_id is the id of the request answered, and
\* processing_time is the time from its start to the lookup.
C3_OnlyThreeRecomputed ==
    \A r \in Req : ServedFromCache(r) =>
        /\ DOMAIN req[r].sent.v = DOMAIN req[req[r].entryOf].sent.v
        /\ \A f \in DOMAIN req[r].sent.v \ {"cached", "processing_time", "request_id"} :
              Field(r, f) = Field(req[r].entryOf, f)
        /\ Field(r, "cached") = JBool(TRUE)
        /\ Field(r, "request_id") = JStr(req[r].requestId)
        /\ Field(r, "processing_time") = JNum(req[r].respondedAt - req[r].startTime)

C3_Witness ==
    \E r \in Req : /\ ServedFromCache(r)
                   /\ Field(r, "request_id") # Field(req[r].entryOf, "request_id")
                   /\ Field(r, "processing_time") # Field(req[r].entryOf, "processing_time")

\* the request whose cache write the success response of r came from
EntryBehind(r) == IF ServedFromCache(r) THEN req[r].entryOf ELSE r
\* r1 got a success response with use_cache, and the same query is issued again (r2)
\* with use_cache after that response and is answered, the redis commands
\* succeeding, before the TTL of the entry behind r1's response has run out
IssuedAgain(r1, r2) ==
    /\ r1 # r2
    /\ Done(r1) /\ req[r1].status = 200 /\ use_cache(req[r1].body)
    /\ ServedFromCache(r1) \/ req[r1].setOk
    /\ Done(r2) /\ use_cache(req[r2].body) /\ SameQuery(r1, r2)
    /\ req[r2].startTime > req[r1].respondedAt
    /\ req[r2].getOk
    /\ req[r2].respondedAt < req[EntryBehind(r1)].respondedAt + QueryTTL * 1000

\* C4: when a query with use_cache got a success response and the same query is
\* issued again with use_cache before the TTL of the entry runs out, with redis
\* reachable, the second response is served from the cache with cached = true and
\* its own processing_time, and its places and llm_text are those of the first
\* response (the entry it reads being still the one behind the first response).
C4_SecondCallServedFromCache ==
    \A r1, r2 \in Req : IssuedAgain(r1, r2) =>
        /\ ServedFromCache(r2)
        /\ req[r2].status = 200
        /\ Field(r2, "cached") = JBool(TRUE)
        /\ Field(r2, "processing_time") = JNum(req[r2].respondedAt - req[r2].startTime)
        /\ req[r2].entryOf = EntryBehind(r1) =>
              /\ Field(r2, "places") = Field(r1, "places")
              /\ Field(r2, "llm_text") = Field(r1, "llm_text")

C4_Witness ==
    \E r1, r2 \in Req : /\ IssuedAgain(r1, r2)
                        /\ req[r2].entryOf = r1
                        /\ req[r1].setOk /\ Found(r1) > 1

\* C5: when the narrative call fails on the path with places, the request is answered
\* with status 500 and the generic failure body carrying its request id, no cache
\* write is issued and no entry of it is in the cache; and no response ever holds
\* places without an llm_text string.
C5_NarrativeFailureFails ==
    /\ \A r \in Req : NarrativeFailed(r) =>
          /\ Done(r)
          /\ req[r].status = 500
          /\ DOMAIN req[r].sent.v = {"error", "request_id"}
          /\ Field(r, "error") = JStr("Failed to process query")
          /\ Field(r, "request_id") = JStr(req[r].requestId)
          /\ "cache.set" \notin Range(req[r].calls)
          /\ WrittenBy(r) = {}
    /\ \A r \in Req : Done(r) /\ "places" \in DOMAIN req[r].sent.v =>
          /\ "llm_text" \in DOMAIN req[r].sent.v
          /\ Field(r, "llm_text").t = "str"

C5_Witness ==
    \E r \in Req : /\ NarrativeFailed(r) /\ Done(r) /\ use_cache(req[r].body)
                   /\ Found(r) > 0 /\ req[r].status = 500

\* the last three calls request r issued
LastCalls(r) ==
    SubSeq(req[r].calls, Len(req[r].calls) - 2, Len(req[r].calls))
\* r2 is the same query as r1, issued with use_cache after r1 was answered
LaterSameQuery(r1, r2) ==
    /\ r1 # r2 /\ Done(r1) /\ SameQuery(r1, r2)
    /\ use_cache(req[r2].body)
    /\ req[r2].pc \notin {"idle", "cacheGet"}
    /\ req[r2].startTime > req[r1].respondedAt

\* C10: every entry of the query cache was written by a request whose provider
\* search gave places, whose narrative call succeeded and whose last calls were the
\* search, the summary and the cache write, in this order; a request whose search
\* gave no places (an empty result or a provider error) or that ended in the failure
\* response has issued no cache write and has no entry; and when no other request
\* wrote the cache, the same query issued after it misses the cache and goes on to
\* the extraction and the provider search.
C10_CacheWrittenOnlyAfterNarrative ==
    /\ \A k \in DOMAIN store :
          LET w == store[k].writer
          IN  /\ w \in Req
              /\ Found(w) > 0
              /\ req[w].narrated # <<>> /\ req[w].narrated[1].ok
              /\ Len(req[w].calls) >= 3
              /\ LastCalls(w) = <<"maps.textSearch", "llm.summary", "cache.set">>
              /\ req[w].status = 200
    /\ \A r \in Req : Done(r) /\ req[r].status # 200 =>
          /\ "cache.set" \notin Range(req[r].calls)
          /\ WrittenBy(r) = {}
    /\ \A r \in Req : Searched(r) /\ Found(r) = 0 => Done(r) /\ req[r].status # 200
    /\ \A r1, r2 \in Req :
          (/\ LaterSameQuery(r1, r2) /\ req[r1].status # 200
           /\ \A q \in Req \ {r2} : ~req[q].setOk)
          => (/\ req[r2].entryOf = 0
              /\ Len(req[r2].calls) >= 2 /\ req[r2].calls[2] = "llm.extract")

C10_Witness ==
    \E r1, r2 \in Req :
        /\ LaterSameQuery(r1, r2) /\ req[r2].getOk
        /\ Searched(r1) /\ req[r1].searched[1].err /\ req[r1].status = 404
        /\ Searched(r2) /\ Found(r2) > 0 /\ WrittenBy(r2) # {}

(***************************************************************************)
(* Properties of the entity extractor                                      *)
(***************************************************************************)
Extracted == ext.pc \in {"returned", "proceeded"}
NoDuplicates(seq) == \A i, j \in 1..Len(seq) : i # j => seq[i] # seq[j]

\* C6: when the text-generation call of the extraction fails, or its output is text
\* that no repair makes JSON, extractLocationEntities does not throw: it returns the
\* normalized keyword fallback, which is computed from the prompt text only, and
\* processQuery goes on to the provider search, no response sent.
C6_FallbackOnFailure ==
    Extracted /\ ext.outcome.kind \in {"error", "unparseable"} =>
        /\ ext.result.ok
        /\ ext.result = fallbackEntities(ext.text)
        /\ ext.pc = "proceeded" =>
              /\ ext.request.pc = "search"
              /\ ext.request.status = 0
              /\ ext.request.calls = <<"llm.extract", "maps.textSearch">>
              /\ ext.request.mapsQuery = mapsQuery(ext.text, fallbackEntities(ext.text).val)

C6_Witness ==
    /\ ext.pc = "proceeded"
    /\ ext.outcome.kind = "unparseable"
    /\ ext.text = "kafe di bandung"
    /\ ext.result.val.place_types = JArr(<<JStr("cafe")>>)
    /\ ext.result.val.locations = JArr(<<JStr("bandung")>>)
    /\ ext.request.mapsQuery = "cafe bandung"

\* C7: whatever the prompt and whatever the text-generation call ends in (an error,
\* any text, JSON of any shape), extractLocationEntities returns an object whose
\* place_names, place_types and locations are arrays, each without two equal
\* elements.
C7_ThreeDedupedArrays ==
    Extracted =>
        /\ ext.result.ok
        /\ DOMAIN ext.result.val = {"place_names", "place_types", "locations"}
        /\ \A f \in DOMAIN ext.result.val :
              /\ ext.result.val[f].t = "arr"
              /\ NoDuplicates(ext.result.val[f].v)

C7_Witness ==
    /\ ext.pc = "returned"
    /\ ext.outcome.kind = "json"
    /\ ext.text = "hello there"
    /\ ext.result.val.place_types = JArr(<<JStr("cafe")>>)
    /\ ext.result.val.locations = JArr(<<JStr("bandung")>>)

(***************************************************************************)
(* Properties of the maps service                                          *)
(***************************************************************************)
ProviderFailed == maps.outcome.kind \in {"error", "malformed"}

\* C8: searchPlaces, nearbySearch and getPlaceDetails never propagate a provider
\* error: they always return a value, and when the provider call fails or its
\* response makes the formatting throw, the two searches return [] and
\* getPlaceDetails returns null; processQuery then answers 404 with the not-found
\* body and never 500.
C8_ProviderErrorsDegrade ==
    /\ maps.pc \in {"returned", "proceeded"} =>
        /\ maps.result.ok
        /\ ProviderFailed =>
            maps.result.val = (IF maps.op = "getPlaceDetails" THEN JNull ELSE JArr(<<>>))
    /\ (maps.pc = "proceeded" /\ ProviderFailed) =>
        /\ maps.request.pc = "done"
        /\ maps.request.status = 404
        /\ maps.request.sent = jsonRoundTrip(notFound(maps.request.requestId))

\* a search whose response made the formatting throw, and the request that awaited it
C8_Witness ==
    /\ maps.pc = "proceeded"
    /\ maps.op = "searchPlaces"
    /\ maps.outcome.kind = "malformed"
    /\ ~maps.outcome.reply.err
    /\ maps.request.status = 404

(***************************************************************************)
(* Properties of the cache service                                         *)
(***************************************************************************)
\* request r looked up the cache, and a cache command it awaited has failed
CacheErrored(r) ==
    /\ req[r].pc \notin {"idle", "cacheGet"}
    /\ use_cache(req[r].body)
    /\ \/ ~req[r].getOk
       \/ /\ Done(r)
          /\ req[r].calls[Len(req[r].calls)] = "cache.set"
          /\ ~req[r].setOk

\* request a, with the cache, and request b, with use_cache false, are the same
\* query and got the same answers from the provider and the narrative
SameButCache(a, b) ==
    /\ Done(a) /\ Done(b)
    /\ ~use_cache(req[b].body)
    /\ SameQuery(a, b)
    /\ max_results(req[a].body) = max_results(req[b].body)
    /\ req[a].searched = req[b].searched
    /\ req[a].narrated = req[b].narrated

C11_NoResultsNarrated ==
    \A r \in Req : (Done(r) /\ Searched(r) /\ Found(r) = 0) =>
        "llm.noResults" \in Range(req[r].calls)

\* the external calls of processQuery, in the order of its awaits
CallOrder == <<"cache.get", "llm.extract", "maps.textSearch", "llm.summary", "cache.set">>
\* the calls a request with this body makes when none of them ends it early
CallsOf(body) ==
    IF use_cache(body) THEN CallOrder
    ELSE SubSeq(CallOrder, 2, Len(CallOrder) - 1)
IsPrefix(s, t) == Len(s) <= Len(t) /\ \A i \in 1..Len(s) : s[i] = t[i]
\* the call request r is awaiting, if any
Awaiting(r) ==
    CASE req[r].pc = "cacheGet" -> <<"cache.get">>
      [] req[r].pc = "extract" -> <<"llm.extract">>
      [] req[r].pc = "search" -> <<"maps.textSearch">>
      [] req[r].pc = "narrate" -> <<"llm.summary">>
      [] req[r].pc = "cacheSet" -> <<"cache.set">>
      [] OTHER -> <<>>

\* C12: the calls a request has issued are an initial part of cache lookup,
\* extraction, provider search, narrative, cache write (without the cache calls when
\* use_cache is false), so each is issued at most once and in this order; a call is
\* issued only after the one before it returned (the only call not yet returned is
\* the last one issued, the narrative is issued only after the search returned, the
\* cache write only after the narrative returned); a request answered from the cache
\* issued the lookup alone.
C12_CallsInOrderOnce ==
    \A r \in Req :
        /\ IsPrefix(req[r].calls, CallsOf(req[r].body))
        /\ Awaiting(r) # <<>> =>
            /\ req[r].calls # <<>>
            /\ req[r].calls[Len(req[r].calls)] = Awaiting(r)[1]
        /\ "llm.summary" \in Range(req[r].calls) => Searched(r)
        /\ "cache.set" \in Range(req[r].calls) => req[r].narrated # <<>>
        /\ Searched(r) => req[r].pc # "search"
        /\ req[r].narrated # <<>> => req[r].pc # "narrate"
        /\ req[r].entryOf # 0 => req[r].calls = <<"cache.get">>

\* a request on a miss that issued all five calls, and one answered from the cache
C12_Witness ==
    \E r1, r2 \in Req :
        /\ Done(r1) /\ req[r1].calls = CallOrder
        /\ Done(r2) /\ req[r2].entryOf = r1 /\ req[r2].calls = <<"cache.get">>

(***************************************************************************)
(* Properties of the route POST /query                                     *)
(***************************************************************************)
\* C13: every response of a query request, whatever its status, carries a
\* request_id, and it is the id made when the request started.
C13_EveryResponseCarriesId ==
    \A r \in Req : Done(r) =>
        /\ "request_id" \in DOMAIN req[r].sent.v
        /\ Field(r, "request_id") = JStr(req[r].requestId)
        /\ req[r].requestId = "req_" \o ToString(req[r].startTime)

MalformedBodies == {input.body : input \in {x \in RouteInputs : x.kind = "malformed"}}
MalformedField(body) == (CHOOSE x \in RouteInputs : x.body = body).field

\* C14: a request whose body is malformed (prompt missing, no string or not of 3 to
\* 500 characters, max_results outside 1..10, lat outside -90..90, lng outside
\* -180..180) is answered 400 with a list of errors naming the field, having issued
\* no cache, text-generation or provider call; a well-formed request is not.
C14_MalformedRejectedFirst ==
    \A r \in Req :
        /\ req[r].body \in MalformedBodies =>
            /\ Done(r)
            /\ req[r].status = 400
            /\ req[r].calls = <<>>
            /\ req[r].searched = <<>> /\ req[r].narrated = <<>>
            /\ DOMAIN req[r].sent.v = {"errors"}
            /\ \E i \in 1..Len(Field(r, "errors").v) :
                    Get(Field(r, "errors").v[i], "path") = JStr(MalformedField(req[r].body))
        /\ (req[r].pc # "idle" /\ req[r].body \notin MalformedBodies) =>
            /\ req[r].status # 400
            /\ req[r].calls # <<>>

\* rejected requests, malformed in max_results and in user_location.lng
C14_Witness ==
    \E r1, r2 \in Req :
        /\ req[r1].body \in MalformedBodies /\ MalformedField(req[r1].body) = "max_results"
        /\ req[r2].body \in MalformedBodies /\ MalformedField(req[r2].body) = "user_location.lng"
        /\ req[r1].status = 400 /\ req[r2].status = 400

(***************************************************************************)
(* Properties of the nearby lookup                                         *)
(***************************************************************************)
Absent(x) == x.t \in {"undefined", "null"}

\* C15: a nearby lookup without location or without place_type is answered 400 with
\* the error text and has made no provider call; a provider call has been made only
\* for a body with both, and then exactly one.
C15_NearbyNeedsBoth ==
    maps.pc \in {"nearby", "done"} =>
        /\ (Absent(Get(maps.body, "location")) \/ Absent(Get(maps.body, "place_type"))) =>
            /\ maps.pc = "done"
            /\ maps.status = 400
            /\ maps.sent = JObj([error |-> JStr("Location and place_type are required")])
            /\ maps.calls = <<>>
        /\ maps.calls # <<>> =>
            /\ ~Absent(Get(maps.body, "location"))
            /\ ~Absent(Get(maps.body, "place_type"))
            /\ Len(maps.calls) = 1
            /\ maps.calls[1].placeType = Get(maps.body, "place_type")
            /\ maps.status # 400

\* a lookup with a location and no place_type has been answered
C15_Witness ==
    /\ maps.pc = "done"
    /\ ~Absent(Get(maps.body, "location"))
    /\ Absent(Get(maps.body, "place_type"))
    /\ maps.status = 400

(***************************************************************************)
(* Properties of the cache service over time                               *)
(***************************************************************************)
\* v as JSON carries it: a member that is undefined is not carried
AsJson(x) ==
    IF x.t = "obj" THEN JObj([k \in {m \in DOMAIN x.v : x.v[m].t # "undefined"} |-> x.v[k]])
    ELSE x
\* the seconds an entry set with this ttl lives: the default when none is given
SecondsToLive(ttl) == IF ttl = 0 THEN defaultTTL ELSE ttl
\* the calls before call i that set (with success) or deleted what call i names
WritesBefore(i) ==
    {j \in 1..(i - 1) :
        /\ cacheLog[j].args = cacheLog[i].args
        /\ \/ cacheLog[j].op = "delete"
           \/ cacheLog[j].op = "set" /\ cacheLog[j].result = JBool(TRUE)}
LastWrite(i) == cacheLog[CHOOSE j \in WritesBefore(i) : \A k \in WritesBefore(i) : k <= j]

C17_OrderSensitive ==
    cacheCall.pc = "keys" =>
        /\ cacheCall.ab = cacheCall.again
        /\ cacheCall.a # cacheCall.b => cacheCall.ab # cacheCall.ba

\* a string without the separator of the key parts
PlainPart(x) == x.t = "str" /\ \A i \in 1..Len(x.v) : Ch(x.v, i) # ":"

\* C17, amended: the key of (a, b) is the same each time it is derived and carries
\* the namespace prefix; for strings a and b without ':' and a different from b it
\* differs from the key of (b, a).
C17_OrderSensitivePlain ==
    cacheCall.pc = "keys" =>
        /\ cacheCall.ab = cacheCall.again
        /\ SubSeq(cacheCall.ab, 1, 9) = "llm_maps:"
        /\ (PlainPart(cacheCall.a) /\ PlainPart(cacheCall.b) /\ cacheCall.a # cacheCall.b) =>
                cacheCall.ab # cacheCall.ba

\* the keys of two different plain strings, one a repetition of the other
C17_Witness ==
    /\ cacheCall.pc = "keys"
    /\ cacheCall.a = JStr("x") /\ cacheCall.b = JStr("xx")
    /\ cacheCall.ab # cacheCall.ba

(***************************************************************************)
(* Properties of the formatted place                                       *)
(***************************************************************************)
\* PlaceCard: the chip shown for place.open_now ("" when no chip is shown)
openNowChip(place) ==
    IF Get(place, "open_now") # JNull
    THEN (IF truthy(Get(place, "open_now")) THEN "Open Now" ELSE "Closed")
    ELSE ""

\* what the provider said of the place being open: true, false or undefined
providerOpenNow(place) == Get(Get(place, "opening_hours"), "open_now")

\* C18: in a formatted place, a provider open_now of true is formatted as open
\* (true, shown as "Open Now"), of false as closed (false, shown as "Closed") and an
\* absent one as unknown (null, no chip), so that the three are pairwise
\* distinguishable in the formatted record.
C18_OpenNowTriState ==
    (maps.pc = "returned" /\ maps.op \in {"searchPlaces", "nearbySearch"}
        /\ maps.outcome.kind = "results") =>
        LET provided == Get(maps.outcome.reply.data, "results").v
            formatted == maps.result.val.v
        IN  \A i \in 1..Len(formatted) :
                /\ providerOpenNow(provided[i]) = JBool(TRUE) =>
                        /\ Get(formatted[i], "open_now") = JBool(TRUE)
                        /\ openNowChip(formatted[i]) = "Open Now"
                /\ providerOpenNow(provided[i]) = JBool(FALSE) =>
                        /\ Get(formatted[i], "open_now") = JBool(FALSE)
                        /\ openNowChip(formatted[i]) = "Closed"
                /\ providerOpenNow(provided[i]) = JUndefined =>
                        /\ Get(formatted[i], "open_now") = JNull
                        /\ openNowChip(formatted[i]) = ""
                /\ \A j \in 1..Len(formatted) :
                        providerOpenNow(provided[i]) # providerOpenNow(provided[j]) =>
                            Get(formatted[i], "open_now") # Get(formatted[j], "open_now")

(***************************************************************************)
(* Properties of the failure response                                      *)
(***************************************************************************)
\* request r ended in the catch of processQuery
Failed(r) == req[r].pc = "done" /\ req[r].status = 500

\* C19: the failure response of a query does not depend on the internal error: the
\* bodies of any two failed requests are equal except for request_id, whatever
\* error was caught, and hold only the generic error text and the request id.
C19_FailureIsGeneric ==
    \A r1, r2 \in Req :
        (Failed(r1) /\ Failed(r2)) =>
            /\ req[r1].sent.t = "obj"
            /\ DOMAIN req[r1].sent.v = {"error", "request_id"}
            /\ Get(req[r1].sent, "error") = JStr("Failed to process query")
            /\ Get(req[r1].sent, "request_id") = JStr(req[r1].requestId)
            /\ With(req[r1].sent, "request_id", JNull) = With(req[r2].sent, "request_id", JNull)

\* two requests that failed on different errors, at different times
C19_Witness ==
    \E r1, r2 \in Req :
        /\ Failed(r1) /\ Failed(r2)
        /\ req[r1].caughtError # req[r2].caughtError
        /\ req[r1].caughtError # "" /\ req[r2].caughtError # ""
        /\ req[r1].requestId # req[r2].requestId

(***************************************************************************)
(* Properties of a query that opts out of the cache                        *)
(***************************************************************************)
\* request r was received with a use_cache that is false
OptedOut(r) == req[r].pc # "idle" /\ ~use_cache(req[r].body)

\* C20: a query with use_cache=false neither reads nor writes the cache: it issues
\* no cache call, no step of it changes the cache contents, and its success response
\* has cached=false with llm_text, places and its request_id, even when an entry for
\* the same prompt and user_location exists.
C20_OptOutLeavesCacheAlone ==
    /\ [](\A r \in Req : OptedOut(r) =>
            /\ req[r].pc \notin {"cacheGet", "cacheSet"}
            /\ \A i \in 1..Len(req[r].calls) : req[r].calls[i] \notin {"cache.get", "cache.set"}
            /\ req[r].entryOf = 0
            /\ WrittenBy(r) = {}
            /\ (Done(r) /\ req[r].status = 200) =>
                /\ Field(r, "cached") = JBool(FALSE)
                /\ Field(r, "llm_text").t = "str"
                /\ Field(r, "places").t = "arr"
                /\ Field(r, "request_id") = JStr(req[r].requestId))
    /\ [][\A r \in Req :
            (req'[r] # req[r] /\ req'[r].pc # "idle" /\ ~use_cache(req'[r].body)) =>
                store' = store]_vars

\* a success response to a request that opted out, received when an entry for the
\* same prompt and user_location was in the cache, and the entry is still there
C20_Witness ==
    \E r \in Req :
        /\ OptedOut(r) /\ Done(r) /\ req[r].status = 200
        /\ Live(store, keyMemo[req[r].body], now)
        /\ \E q \in Req :
            /\ store[keyMemo[req[r].body]].writer = q
            /\ Done(q)
            /\ req[q].respondedAt <= req[r].startTime
            /\ SameQuery(q, r)

(***************************************************************************)
(* Properties of the repair parsing                                        *)
(***************************************************************************)
\* the entities of the well-formed JSON that the output of the extraction stands for
MeantEntities ==
    LET f == CHOOSE x \in RepairFixtures : OllamaText(x.text) = ext.outcome.reply
    IN  _normalizeEntities(JSONparse(f.means).val)

\* C21: when the output of the extraction is a JSON object of the expected shape but
\* for a trailing comma and/or single-quoted strings, extractLocationEntities returns
\* the normalized entities of that object, not the keyword fallback.
C21_RepairedNotFallback ==
    (Extracted /\ ext.outcome.kind = "repairable") =>
        /\ ext.result.ok
        /\ ext.result = MeantEntities

\* the output of the extraction is one of the objects with prose around it
ProseAround == \E f \in ProseFixtures : OllamaText(f.text) = ext.outcome.reply
ObjectInProse ==
    LET f == CHOOSE x \in ProseFixtures : OllamaText(x.text) = ext.outcome.reply
    IN  JSONparse(f.means)

\* C22: when the direct parse of the output fails, the parser tries the balanced
\* {...} substrings of it, so an output that is a valid JSON object with prose around
\* it is parsed to that object, and the extractor returns the entities of the object.
C22_ObjectInProseParsed ==
    (Extracted /\ ProseAround) =>
        /\ _attemptParseJson(generateResponse(ext.outcome.reply).val) = ObjectInProse
        /\ ext.result = _normalizeEntities(ObjectInProse.val)

(***************************************************************************)
(* Properties of the result lists                                          *)
(***************************************************************************)
\* a search of the maps service has returned
SearchReturned == maps.pc \in {"returned", "proceeded"} /\ maps.op \in {"searchPlaces", "nearbySearch"}
\* the result list of the provider's response ([] when it has none)
Provided ==
    IF ~maps.outcome.reply.err /\ IsArray(Get(maps.outcome.reply.data, "results"))
    THEN Get(maps.outcome.reply.data, "results").v
    ELSE <<>>

\* C23: searchPlaces and nearbySearch each return at most 5 place records, which
\* are the formatted first elements of the provider's result list in the provider's
\* order; a response of well-formed results gives the first 5, or all when fewer.
C23_FormattedPrefix ==
    SearchReturned =>
        LET places == maps.result.val.v
        IN  /\ maps.result.ok /\ maps.result.val.t = "arr"
            /\ Len(places) <= 5
            /\ Len(places) <= Len(Provided)
            /\ \A i \in 1..Len(places) : Ok(places[i]) = formatPlace(Provided[i])
            /\ maps.outcome.kind = "results" =>
                    Len(places) = (IF Len(Provided) < 5 THEN Len(Provided) ELSE 5)

\* a search whose provider response holds more places than are returned
C23_Witness ==
    /\ SearchReturned
    /\ maps.op = "nearbySearch"
    /\ Len(Provided) > 5
    /\ Len(maps.result.val.v) = 5
    /\ Get(maps.result.val.v[2], "name") = JStr("Kedai Dua")

(***************************************************************************)
(* Properties of the place-type normalization                              *)
(***************************************************************************)
\* the canonical name of the synonym table for key t, t itself when t is no key
Canonical(t) ==
    IF \E i \in 1..Len(placeTypeMap) : placeTypeMap[i][1] = t
    THEN placeTypeMap[CHOOSE i \in 1..Len(placeTypeMap) : placeTypeMap[i][1] = t][2]
    ELSE t

\* C24: for every place-type string t, _normalizePlaceType returns the canonical
\* name when the lower-cased trimmed t is a key of the synonym table and the
\* lower-cased trimmed t otherwise; the result is always a string, and normalizing
\* it again returns the same value.
C24_CanonicalAndIdempotent ==
    /\ ext.pc \in {"normalized", "again"} =>
        /\ ext.once.ok
        /\ ext.once.val.t = "str"
        /\ ext.once.val = JStr(Canonical(trim(toLowerCase(ext.type))))
    /\ ext.pc = "again" => ext.twice = ext.once

(***************************************************************************)
(* Properties of the place-details lookups                                 *)
(***************************************************************************)
\* C25: after any sequence of place-details lookups the cache holds an entry for
\* ("place", id) only if the provider returned a record for id in an earlier lookup;
\* a lookup that ended not-found (the provider gave no record, or failed) has asked
\* the provider and has issued no cache write, and a lookup of an id the provider
\* has given no record for is never answered from the cache.
C25_OnlyFoundPlacesCached ==
    /\ \A id \in PlaceIds :
            generateKey(placeKey(id)) \in DOMAIN store => id \in maps.found
    /\ (maps.pc = "done" /\ maps.status = 404) =>
            maps.calls = <<"cache.get", "maps.placeDetails">>
    /\ \A id \in maps.missed \ maps.found : generateKey(placeKey(id)) \notin DOMAIN store
    /\ (maps.pc = "done" /\ maps.placeId \notin maps.found) =>
            /\ maps.calls = <<"cache.get", "maps.placeDetails">>
            /\ maps.status = 404

\* a lookup of an id that ended not-found before asks the provider again, while the
\* entry of the other id is in the cache
C25_Witness ==
    /\ maps.pc = "lookup"
    /\ maps.placeId = "ChIJb"
    /\ "ChIJb" \in maps.missed
    /\ maps.found = {"ChIJa"}
    /\ DOMAIN store = {generateKey(placeKey("ChIJa"))}

(***************************************************************************)
(* Properties of the reconnect strategy                                    *)
(***************************************************************************)
\* C26: the delay before the n-th reconnect attempt grows exponentially with n (of
\* three delays in a row below the ceiling, the last exceeds the middle one by more
\* than the middle one exceeds the first, and no delay is smaller than the one
\* before it) and never exceeds the ceiling of 10,000 ms.
C26_ExponentialUpToCeiling ==
    LET w == cacheCall.waits
    IN  /\ \A i \in 1..Len(w) : w[i] <= 10000
        /\ \A i \in 1..(Len(w) - 1) : w[i] <= w[i + 1]
        /\ (Len(w) = 3 /\ w[3] < 10000) => w[3] - w[2] > w[2] - w[1]

(***************************************************************************)
(* Properties of the two kinds of cache entry                              *)
(***************************************************************************)
\* C27: query-result entries and place-detail entries never share a cache key: the
\* key of a validated query differs from the key of every details request, a
\* details lookup is never answered with a query result, and a query is never
\* answered with a place record.
C27_QueryAndPlaceKeysApart ==
    /\ (req[1].pc \notin {"idle", "done"} /\ maps.pc \notin {"idle", "done"}) =>
            generateKey(cacheKey(req[1].body)) # generateKey(placeKey(maps.placeId))
    /\ (maps.pc = "done" /\ maps.status = 200) =>
            /\ "llm_text" \notin DOMAIN maps.sent.v
            /\ "place_id" \in DOMAIN maps.sent.v
    /\ (req[1].pc = "done" /\ req[1].status = 200) =>
            /\ "llm_text" \in DOMAIN req[1].sent.v
            /\ "place_id" \notin DOMAIN req[1].sent.v

(***************************************************************************)
(* Properties of the request ids                                           *)
(***************************************************************************)
\* C28: two distinct query requests never carry the same request_id, including
\* requests that start at the same clock reading.
C28_RequestIdsDistinct ==
    \A r1, r2 \in Req :
        (r1 # r2 /\ req[r1].pc # "idle" /\ req[r2].pc # "idle") =>
            /\ req[r1].requestId # req[r2].requestId
            /\ (Done(r1) /\ Done(r2)) => Field(r1, "request_id") # Field(r2, "request_id")

(***************************************************************************)
(* Properties of processQuery over time                                    *)
(***************************************************************************)
\* C29: every query request that passes validation eventually sends exactly one
\* terminal response (200, 404 or 500): once received it is answered, whether or not
\* the cache store is reachable, and once answered its response is never sent again
\* or changed.
C29_ExactlyOneResponse ==
    /\ (req[1].pc # "idle") ~> (Done(1) /\ req[1].status \in {200, 404, 500})
    /\ [][Done(1) => req'[1] = req[1]]_vars

(***************************************************************************)
(* Properties of the payloads sent to clients                              *)
(***************************************************************************)
\* some string inside the value x holds the maps API key of the server
RECURSIVE HoldsApiKey(_)
HoldsApiKey(x) ==
    CASE x.t = "str" -> includes(x.v, apiKey)
      [] x.t = "arr" -> \E i \in 1..Len(x.v) : HoldsApiKey(x.v[i])
      [] x.t = "obj" -> \E f \in DOMAIN x.v : HoldsApiKey(x.v[f])
      [] OTHER -> FALSE

\* C30: the maps API key of the server never appears in a response payload sent to
\* a client: no field of a place record of a query response (maps_url,
\* directions_url, embed_url included) holds it.
C30_NoApiKeyInResponses ==
    \A r \in Req : Done(r) => ~HoldsApiKey(req[r].sent)

====
